---- MODULE Spec2Model ----
(***************************************************************************)
(* Decision engine of the option-income scanner: the position-health       *)
(* decision procedure (src/src/portfolio/position_analyzer.py), the        *)
(* cash-secured-put and covered-call pipelines (src/src/strategies), the   *)
(* roll search (rolling_optimizer.py), the factor scores                   *)
(* (src/src/analysis/enhanced_probability.py) and the closed-form          *)
(* probability (src/src/data/greeks_calculator.py).                        *)
(*                                                                         *)
(* Numbers.  Percentages and day counts are integers.  Money is in whole   *)
(* dollars for strikes and spot prices and in cents for premiums.  A       *)
(* float the code only compares with integer thresholds is represented by  *)
(* an integer rounding that preserves every such comparison.               *)
(***************************************************************************)
EXTENDS Integers, Sequences, FiniteSets, TLC

VARIABLES
    decision,        \* last direct call of _determine_action: arguments and return
    recommendation,  \* last PositionRecommendation of analyze_option_position
    cspInput,        \* the caller's options table handed to analyze_cash_secured_puts
    cspCall,         \* the parameters of the calls, and the table as first given
    cspRuns,         \* what the successive calls returned
    rollCall,        \* a call of find_roll_opportunities: arguments, market, return
    scoreCall,       \* a call of one of the four factor scorers
    probCall,        \* a call of calculate_probability_otm
    cache,           \* EnhancedProbabilityAnalyzer.cache: ticker -> snapshot
    analyzerCall,    \* the last call on the EnhancedProbabilityAnalyzer
    strategyCall,    \* a call of analyze_covered_calls or of a get_top_opportunities
    portfolio,       \* PortfolioManager.portfolio: stocks, options, last_updated
    portfolio_file,  \* the JSON document at PortfolioManager.portfolio_file, if any
    portfolioCall,   \* the last call on the PortfolioManager or CapitalCalculator
    capital_settings \* config.CAPITAL_SETTINGS as read by CapitalCalculator.__init__

vars == <<decision, recommendation, cspInput, cspCall, cspRuns, rollCall, scoreCall,
          probCall, cache, analyzerCall, strategyCall,
          portfolio, portfolio_file, portfolioCall, capital_settings>>

\* An optional value (Python's None, a date string that does not parse): a
\* sequence of at most one element.
None == <<>>
Some(v) == <<v>>
IsNone(x) == Len(x) = 0
Val(x) == x[1]
Idle == [op |-> "idle"]

Abs(x) == IF x < 0 THEN -x ELSE x
Max(a, b) == IF a >= b THEN a ELSE b
Min(a, b) == IF a <= b THEN a ELSE b

(***************************************************************************)
(* PositionAnalyzer settings: config.py defines no                         *)
(* POSITION_ANALYSIS_SETTINGS, so __init__ takes the fallback defaults.    *)
(***************************************************************************)
aggressive_target_pct == 75
standard_target_pct == 50
force_close_dte == 21
min_prob_otm_warning == 45
ItmCloseDays == 7
SensitivityThreshold == 15
AtmBandPct == 2

(***************************************************************************)
(* _determine_action: the first matching branch returns.                   *)
(***************************************************************************)
Ret(a, u, why) == [action |-> a, urgency |-> u, branch |-> why]

\* _determine_action without its force-close branch
DetermineActionWithoutRoll(pnl_pct, prob_otm, moneyness, days_remaining, prob_change, tech_change) ==
    IF moneyness = "ITM" /\ days_remaining < ItmCloseDays
    THEN Ret("CLOSE_EARLY", 5, "itm_assignment")
    ELSE IF pnl_pct >= aggressive_target_pct
    THEN Ret("CLOSE_EARLY", 4, "aggressive_target")
    ELSE IF pnl_pct >= standard_target_pct /\ days_remaining <= force_close_dte
    THEN Ret("CLOSE_EARLY", 3, "standard_target")
    ELSE IF prob_otm < min_prob_otm_warning
    THEN Ret("CLOSE_EARLY", 5, "probability_floor")
    ELSE IF Abs(prob_change) > SensitivityThreshold \/ Abs(tech_change) > SensitivityThreshold
    THEN Ret("ADJUST_TARGETS", 2, "conditions_changed")
    ELSE Ret("HOLD", 1, "healthy")

DetermineActionSwapped(pnl_pct, prob_otm, moneyness, days_remaining, prob_change, tech_change) ==
    IF pnl_pct >= aggressive_target_pct
    THEN Ret("CLOSE_EARLY", 4, "aggressive_target")
    ELSE IF moneyness = "ITM" /\ days_remaining < ItmCloseDays
    THEN Ret("CLOSE_EARLY", 5, "itm_assignment")
    ELSE IF pnl_pct >= standard_target_pct /\ days_remaining <= force_close_dte
    THEN Ret("CLOSE_EARLY", 3, "standard_target")
    ELSE IF prob_otm < min_prob_otm_warning
    THEN Ret("CLOSE_EARLY", 5, "probability_floor")
    ELSE IF days_remaining <= force_close_dte /\ pnl_pct < standard_target_pct
    THEN Ret("ROLL", 3, "force_close_dte")
    ELSE IF Abs(prob_change) > SensitivityThreshold \/ Abs(tech_change) > SensitivityThreshold
    THEN Ret("ADJUST_TARGETS", 2, "conditions_changed")
    ELSE Ret("HOLD", 1, "healthy")

DetermineAction(pnl_pct, prob_otm, moneyness, days_remaining, prob_change, tech_change) ==
    IF moneyness = "ITM" /\ days_remaining < ItmCloseDays
    THEN Ret("CLOSE_EARLY", 5, "itm_assignment")
    ELSE IF pnl_pct >= aggressive_target_pct
    THEN Ret("CLOSE_EARLY", 4, "aggressive_target")
    ELSE IF pnl_pct >= standard_target_pct /\ days_remaining <= force_close_dte
    THEN Ret("CLOSE_EARLY", 3, "standard_target")
    ELSE IF prob_otm < min_prob_otm_warning
    THEN Ret("CLOSE_EARLY", 5, "probability_floor")
    ELSE IF days_remaining <= force_close_dte /\ pnl_pct < standard_target_pct
    THEN Ret("ROLL", 3, "force_close_dte")
    ELSE IF Abs(prob_change) > SensitivityThreshold \/ Abs(tech_change) > SensitivityThreshold
    THEN Ret("ADJUST_TARGETS", 2, "conditions_changed")
    ELSE Ret("HOLD", 1, "healthy")

(***************************************************************************)
(* Arguments of the direct calls.                                          *)
(***************************************************************************)
MaxDaysRemaining == 23
DeltaSpread == 1

PnlPcts == {-40, 0, standard_target_pct - 1, standard_target_pct,
            aggressive_target_pct - 1, aggressive_target_pct, 80, 100}
ProbOtms == {min_prob_otm_warning - 1, min_prob_otm_warning, 50, 80}
Moneynesses == {"ITM", "ATM", "OTM"}
DaysRemainings == -1..MaxDaysRemaining
Deltas == {0} \cup {s * (SensitivityThreshold + d) : s \in {-1, 1}, d \in 0..DeltaSpread}

DetermineArgs ==
    [op : {"args"}, pnl_pct : PnlPcts, prob_otm : ProbOtms, moneyness : Moneynesses,
     days_remaining : DaysRemainings, prob_change : Deltas, tech_change : Deltas]

CallDetermineAction ==
    /\ decision.op = "args"
    /\ decision' = [decision EXCEPT !.op = "determine"] @@
                   [ret |-> DetermineAction(decision.pnl_pct, decision.prob_otm,
                                            decision.moneyness, decision.days_remaining,
                                            decision.prob_change, decision.tech_change)]
    /\ UNCHANGED <<recommendation, cspInput, cspCall, cspRuns, rollCall, scoreCall, probCall,
                 cache, analyzerCall, strategyCall,
                 portfolio, portfolio_file, portfolioCall, capital_settings>>

(***************************************************************************)
(* analyze_option_position.  A date is the number of calendar days from    *)
(* today's date (BadDate: a string strptime rejects); clock is 0 when      *)
(* datetime.now() is exactly midnight and 1 otherwise.                     *)
(***************************************************************************)
BadDate == None

\* lines 176-181: (exp_date - datetime.now()).days, 0 when the date does not parse
DaysRemaining(pos, clock) ==
    IF IsNone(pos.expiration) THEN 0
    ELSE IF clock = 0 THEN Val(pos.expiration) ELSE Val(pos.expiration) - 1

\* lines 183-188: (datetime.now() - entry_date).days
DaysHeld(pos) == IF IsNone(pos.open_date) THEN 0 ELSE -Val(pos.open_date)

\* the least c with c >= p * sqrt(num / den), for den > 0 and 0 <= num <= den
CeilScaledSqrt(p, num, den) ==
    CHOOSE c \in 0..p : /\ c * c * den >= p * p * num
                        /\ \A b \in 0..(c - 1) : b * b * den < p * p * num

\* _estimate_current_option_price, in cents, rounded up
EstimateCurrentOptionPrice(pos, current_price, days_remaining) ==
    IF days_remaining <= 0
    THEN IF pos.option_type = "put"
         THEN 100 * Max(0, pos.strike - current_price)
         ELSE 100 * Max(0, current_price - pos.strike)
    ELSE IF ~IsNone(pos.open_date) /\ Val(pos.expiration) - Val(pos.open_date) > 0
         THEN CeilScaledSqrt(pos.premium, days_remaining,
                             Val(pos.expiration) - Val(pos.open_date))
         ELSE (pos.premium + 1) \div 2

\* _calculate_pnl_metrics: unrealized_pnl_pct, rounded down
UnrealizedPnlPct(pos, current_option_price) ==
    IF pos.premium * pos.contracts > 0
    THEN (100 * (pos.premium - current_option_price)) \div pos.premium
    ELSE 0

\* _calculate_probability_analysis: calculate_enhanced_probability takes
\* (ticker, strike, current_price, days_to_expiration, ...) and is called with
\* one Series, so the call raises TypeError and the except branch answers.
CalculateProbabilityAnalysis(pos, current_price) ==
    [current_prob_otm |-> 50, technical_score |-> 50, composite_score |-> 50]

\* prob_analysis.get(key, default)
Get(d, key, default) == IF key \in DOMAIN d THEN d[key] ELSE default

DetermineMoneynessCallAsPut(pos, current_price) ==
    IF 100 * Abs(current_price - pos.strike) < AtmBandPct * pos.strike THEN "ATM"
    ELSE IF current_price < pos.strike THEN "ITM" ELSE "OTM"

\* _determine_moneyness
DetermineMoneyness(pos, current_price) ==
    IF 100 * Abs(current_price - pos.strike) < AtmBandPct * pos.strike THEN "ATM"
    ELSE IF pos.option_type = "put"
    THEN IF current_price < pos.strike THEN "ITM" ELSE "OTM"
    ELSE IF current_price > pos.strike THEN "ITM" ELSE "OTM"

AnalyzeOptionPosition(pos, spot, clock) ==
    LET current_price == IF IsNone(spot) THEN 0 ELSE Val(spot)
        days_remaining == DaysRemaining(pos, clock)
        current_option_price == EstimateCurrentOptionPrice(pos, current_price, days_remaining)
        pnl_pct == UnrealizedPnlPct(pos, current_option_price)
        prob == CalculateProbabilityAnalysis(pos, current_price)
        moneyness == DetermineMoneyness(pos, current_price)
        ret == DetermineAction(pnl_pct, Get(prob, "current_prob_otm", 50), moneyness,
                               days_remaining, Get(prob, "prob_change", 0),
                               Get(prob, "technical_score_change", 0))
    IN  [op |-> "analyze", position |-> pos, spot |-> spot, clock |-> clock,
         current_price |-> current_price,
         days_remaining |-> days_remaining,
         days_held |-> DaysHeld(pos),
         current_option_price |-> current_option_price,
         unrealized_pnl_pct |-> pnl_pct,
         current_prob_otm |-> Get(prob, "current_prob_otm", 0),
         prob_change |-> Get(prob, "prob_change", 0),
         current_technical_score |-> Get(prob, "technical_score", 0),
         technical_score_change |-> Get(prob, "technical_score_change", 0),
         current_composite_score |-> Get(prob, "composite_score", 0),
         moneyness |-> moneyness,
         action |-> ret.action, urgency |-> ret.urgency, branch |-> ret.branch,
         data_quality |-> IF current_price > 0 THEN "high" ELSE "low"]

MaxExpiration == 24
MaxSpotGap == 3
Strikes == {50, 90}
Spots == {None, Some(0), Some(80)}
             \cup {Some(k + g) : k \in Strikes, g \in -MaxSpotGap..MaxSpotGap}
OpenDates == {BadDate, Some(0), Some(-1), Some(-10), Some(-30)}
Expirations == {BadDate} \cup {Some(e) : e \in -1..MaxExpiration}
\* position.get('entry_analysis', {}): the values recorded when the position
\* was opened, if any
EntryAnalyses ==
    {None, Some([prob_otm_at_entry |-> 70, technical_score_at_entry |-> 60])}

Positions ==
    [option_type : {"put", "call"}, strike : Strikes, expiration : Expirations,
     open_date : OpenDates, premium : {200}, contracts : {1},
     strategy : {"cash_secured_put"}, entry_analysis : EntryAnalyses]

\* snapshot: what the factor provider holds for the position's ticker (None
\* when it has nothing to give)
AnalyzeArgs ==
    [op : {"args"}, position : Positions, spot : Spots, clock : {0, 1},
     snapshot : {"none", "bullish", "bearish"}]

CallAnalyzeOptionPosition ==
    /\ recommendation.op = "args"
    /\ recommendation' = AnalyzeOptionPosition(recommendation.position,
                                               recommendation.spot, recommendation.clock)
                          @@ [snapshot |-> recommendation.snapshot]
    /\ UNCHANGED <<decision, cspInput, cspCall, cspRuns, rollCall, scoreCall, probCall,
                 cache, analyzerCall, strategyCall,
                 portfolio, portfolio_file, portfolioCall, capital_settings>>

(***************************************************************************)
(* GreeksCalculator helpers used by the pipelines.                         *)
(***************************************************************************)
\* calculate_days_to_expiration: max(0, (exp_date - now).days)
CalculateDaysToExpiration(expiration, clock) ==
    IF IsNone(expiration) THEN 0
    ELSE Max(0, IF clock = 0 THEN Val(expiration) ELSE Val(expiration) - 1)

\* An exact fraction <<numerator, denominator>>, denominator > 0.
RECURSIVE FracLess(_, _)
FracLess(x, y) ==
    LET qx == x[1] \div x[2]  rx == x[1] % x[2]
        qy == y[1] \div y[2]  ry == y[1] % y[2]
    IN  IF qx # qy THEN qx < qy
        ELSE IF rx = 0 THEN ry > 0
        ELSE IF ry = 0 THEN FALSE
        ELSE FracLess(<<y[2], ry>>, <<x[2], rx>>)

FracAtLeast(x, n) == x[1] >= n * x[2]

\* calculate_annualized_return(premium, capital, days), in percent; the premium
\* is in cents and the capital in dollars
CalculateAnnualizedReturn(premium, capital, days) ==
    IF capital <= 0 \/ days <= 0 THEN <<0, 1>>
    ELSE <<premium * 365, capital * days>>

\* Python's int(a / b) for b > 0: truncation toward zero
IntQuotient(a, b) == IF a >= 0 THEN a \div b ELSE -((-a) \div b)

(***************************************************************************)
(* The cash-secured-put pipeline.  A table is a sequence of quote rows;    *)
(* idx is the row's index label, which pandas carries through every        *)
(* selection.  The outcome of a call is a table or a raised exception.     *)
(***************************************************************************)
Table(rows) == [kind |-> "table", rows |-> rows]
Raise(e) == [kind |-> "raise", rows |-> <<>>, error |-> e]
EmptyTable == [kind |-> "table", rows |-> <<>>]

Filter(rows, Keep(_)) == SelectSeq(rows, Keep)
Map(rows, F(_)) == [i \in 1..Len(rows) |-> F(rows[i])]

\* get_price of _calculate_effective_price (lines 34-42); NaN is None
GetPrice(row) ==
    IF ~IsNone(row.bid) /\ Val(row.bid) > 0 THEN <<Val(row.bid), "bid">>
    ELSE IF ~IsNone(row.lastPrice) /\ Val(row.lastPrice) > 0
    THEN <<Val(row.lastPrice), "lastPrice">>
    ELSE IF ~IsNone(row.ask) /\ Val(row.ask) > 0 THEN <<Val(row.ask) \div 2, "ask/2">>
    ELSE <<0, "none">>

WithPrice(row) ==
    row @@ [effective_price |-> GetPrice(row)[1], price_source |-> GetPrice(row)[2]]

\* _calculate_effective_price.  On a frame without rows, DataFrame.apply with
\* result_type='expand' hands back a copy of the frame itself, which has no
\* column 0, so results[0] (line 45) raises KeyError.
CalculateEffectivePrice(rows) ==
    IF Len(rows) = 0 THEN Raise("KeyError") ELSE Table(Map(rows, WithPrice))

\* lines 104-116: the days, premium and volume filters
PassesBasicFilters(row, a) ==
    /\ row.days_to_expiration <= a.max_days
    /\ row.days_to_expiration >= a.min_days
    /\ row.effective_price >= a.min_premium
    /\ (~IsNone(a.min_volume) => row.volume >= Val(a.min_volume))

\* lines 121-162
WithPutMetrics(row) ==
    row @@ [capital_required |-> row.strike,
            premium_received |-> row.effective_price,
            annual_return |-> CalculateAnnualizedReturn(row.effective_price, row.strike,
                                                        row.days_to_expiration)]

\* lines 164-175: the return, delta and probability filters
PassesReturnFilters(row, a, columns) ==
    /\ FracAtLeast(row.annual_return, a.min_annual_return)
    /\ (~IsNone(a.min_delta) /\ "delta" \in columns => row.delta >= Val(a.min_delta))
    /\ (~IsNone(a.max_delta) /\ "delta" \in columns => row.delta <= Val(a.max_delta))
    /\ (~IsNone(a.min_prob_otm) /\ "prob_otm" \in columns
            => row.prob_otm >= Val(a.min_prob_otm))

MaxAffordableContractsInverted(row, available_cash, max_cash_per_position) ==
    IF ~IsNone(max_cash_per_position)
    THEN IntQuotient(Val(max_cash_per_position), row.strike * 100)
    ELSE IntQuotient(row.strike * 100, Val(available_cash))

\* lines 185-189
MaxAffordableContracts(row, available_cash, max_cash_per_position) ==
    IF ~IsNone(max_cash_per_position)
    THEN IntQuotient(Val(max_cash_per_position), row.strike * 100)
    ELSE IntQuotient(Val(available_cash), row.strike * 100)

\* lines 180-196
WithContracts(row, available_cash, max_cash_per_position) ==
    LET n == MaxAffordableContracts(row, available_cash, max_cash_per_position)
    IN  row @@ [cash_per_contract |-> row.strike * 100,
                max_affordable_contracts |-> n,
                total_capital_required |-> row.strike * 100 * n]

\* lines 204-208
RiskRewardScore(row, columns) ==
    IF "prob_otm" \in columns
    THEN <<row.annual_return[1] * row.prob_otm, row.annual_return[2] * 100>>
    ELSE row.annual_return

\* sort_values('risk_reward_score', ascending=False): rows in non-increasing
\* score order.  The default sort kind is not stable, so the order of rows with
\* equal scores is fixed by the platform's sort (tie), the same on every call.
Before(r, q, tie) ==
    \/ FracLess(q.risk_reward_score, r.risk_reward_score)
    \/ /\ ~FracLess(r.risk_reward_score, q.risk_reward_score)
       /\ IF tie = "input_order" THEN r.pos < q.pos ELSE r.pos > q.pos

SortValues(rows, tie) ==
    LET n == Len(rows)
        placed == [i \in 1..n |-> rows[i] @@ [pos |-> i]]
        rank(i) == 1 + Cardinality({j \in 1..n : Before(placed[j], placed[i], tie)})
        at(k) == CHOOSE i \in 1..n : rank(i) = k
    IN  [k \in 1..n |-> rows[at(k)]]

\* analyze_cash_secured_puts
AnalyzeCashSecuredPuts(table, a, available_cash) ==
    IF Len(table.rows) = 0 THEN EmptyTable
    ELSE
    LET puts == Filter(table.rows, LAMBDA r : r.option_type = "put")
        priced == CalculateEffectivePrice(puts)
    IN  IF priced.kind = "raise" THEN priced
        ELSE
        LET quality == IF IsNone(a.quality_tickers) THEN priced.rows
                       ELSE Filter(priced.rows, LAMBDA r : r.ticker \in Val(a.quality_tickers))
            enriched == Map(quality, LAMBDA r :
                            r @@ [days_to_expiration |->
                                     CalculateDaysToExpiration(r.expiration, a.clock)])
            filtered == Filter(enriched, LAMBDA r : PassesBasicFilters(r, a))
            measured == Map(filtered, WithPutMetrics)
            returned == Filter(measured, LAMBDA r : PassesReturnFilters(r, a, table.columns))
            sized == IF IsNone(available_cash) THEN returned
                     ELSE Filter(Map(returned, LAMBDA r :
                                       WithContracts(r, available_cash,
                                                     a.max_cash_per_position)),
                                 LAMBDA r : r.max_affordable_contracts >= 1)
            scored == Map(sized, LAMBDA r :
                          r @@ [risk_reward_score |-> RiskRewardScore(r, table.columns)])
        IN  Table(SortValues(scored, a.tie))

\* options_df[options_df['option_type'] == 'put'].copy() (line 86) and the
\* copies of _calculate_effective_price and enrich_option_data: every column
\* is added to a copy, the caller's table is never assigned to.
InputAfterAnalysisInPlace(table) == [table EXCEPT !.rows = Map(table.rows, WithPrice)]

InputAfterAnalysis(table) == table

RunAnalyzeCashSecuredPuts ==
    /\ cspCall.op = "args"
    /\ Len(cspRuns) < Len(cspCall.available_cash)
    /\ cspRuns' = Append(cspRuns,
                         AnalyzeCashSecuredPuts(cspInput, cspCall,
                                                cspCall.available_cash[Len(cspRuns) + 1]))
    /\ cspInput' = InputAfterAnalysis(cspInput)
    /\ UNCHANGED <<cspCall, decision, recommendation, rollCall, scoreCall, probCall,
                 cache, analyzerCall, strategyCall,
                 portfolio, portfolio_file, portfolioCall, capital_settings>>

Quote(ticker, option_type, spot, strike, expiration, bid, ask, lastPrice, volume, delta,
      prob_otm) ==
    [ticker |-> ticker, option_type |-> option_type, current_stock_price |-> spot,
     strike |-> strike, expiration |-> Some(expiration), bid |-> bid, ask |-> ask,
     lastPrice |-> lastPrice, volume |-> volume, delta |-> delta, prob_otm |-> prob_otm]

Quotes ==
    { Quote("TICK1", "put", 100, 95, 31, Some(100), Some(110), Some(105), 100, -30, 70),
      Quote("TICK3", "put", 100, 95, 31, Some(0), Some(110), Some(100), 100, -30, 70),
      Quote("TICK1", "put", 100, 90, 31, Some(50), Some(60), Some(55), 5, -20, 80),
      Quote("TICK1", "call", 100, 95, 31, Some(110), Some(120), Some(115), 150, 60, 30),
      Quote("TICK2", "put", 210, 200, 31, Some(300), Some(320), Some(310), 300, -35, 66),
      Quote("TICK2", "put", 200, 180, 41, Some(200), Some(220), Some(210), 300, -28, 72),
      Quote("TICK2", "put", 200, 150, 31, None, Some(0), Some(0), 300, -10, 90),
      Quote("TICK3", "put", 100, 90, 31, Some(0), Some(120), None, 100, -20, 80) }

MaxRows == 2
Tables ==
    { [rows |-> [i \in 1..n |-> f[i] @@ [idx |-> i]], columns |-> c] :
        n \in 0..MaxRows, f \in [1..MaxRows -> Quotes],
        c \in {{"volume", "delta", "prob_otm"}, {"volume"}} }

Cash == {None, Some(9000), Some(15000), Some(100000)}
Budget(c) == IF IsNone(c) THEN -1 ELSE Val(c)
CspArgs ==
    [op : {"args"}, min_premium : {50}, min_annual_return : {10}, min_days : {0},
     max_days : {60}, min_prob_otm : {None, Some(75)}, min_volume : {None, Some(10)},
     quality_tickers : {None, Some({"TICK2"})}, min_delta : {None},
     max_delta : {None, Some(-25)}, available_cash : {c \in Cash \X Cash : Budget(c[1]) <= Budget(c[2])},
     max_cash_per_position : {None, Some(10000), Some(20000)},
     clock : {1}, tie : {"input_order", "reversed"}]

InitCsp ==
    /\ portfolio = Idle /\ portfolio_file = Idle
    /\ portfolioCall = Idle /\ capital_settings = Idle
    /\ strategyCall = Idle
    /\ cache = Idle /\ analyzerCall = Idle
    /\ decision = Idle
    /\ recommendation = Idle
    /\ cspInput \in Tables
    /\ \E a \in CspArgs : cspCall = a @@ [given |-> cspInput]
    /\ cspRuns = <<>>
    /\ rollCall = Idle
    /\ scoreCall = Idle /\ probCall = Idle

NextCsp == RunAnalyzeCashSecuredPuts

SpecCsp == InitCsp /\ [][NextCsp]_vars

\* calls that vary the premium and return thresholds, without a budget;
\* min_distance_pct is the value of config.CASH_SECURED_PUT_ADVANCED at the
\* time of the call, which analyze_cash_secured_puts never reads
CspFilterArgs ==
    [op : {"args"}, min_premium : {0, 50}, min_annual_return : {0, 10}, min_days : {0},
     max_days : {60}, min_prob_otm : {None}, min_volume : {None},
     quality_tickers : {None}, min_delta : {None}, max_delta : {None},
     available_cash : {<<None, None>>}, max_cash_per_position : {None},
     clock : {1}, tie : {"input_order"}, min_distance_pct : {2, 4, 6}]

InitCspFilters ==
    /\ portfolio = Idle /\ portfolio_file = Idle
    /\ portfolioCall = Idle /\ capital_settings = Idle
    /\ strategyCall = Idle
    /\ cache = Idle /\ analyzerCall = Idle
    /\ decision = Idle
    /\ recommendation = Idle
    /\ cspInput \in Tables
    /\ \E a \in CspFilterArgs : cspCall = a @@ [given |-> cspInput]
    /\ cspRuns = <<>>
    /\ rollCall = Idle
    /\ scoreCall = Idle /\ probCall = Idle

SpecCspFilters == InitCspFilters /\ [][NextCsp]_vars

(***************************************************************************)
(* RollingOpportunityFinder.  Premiums, close cost and net credit are in   *)
(* cents; a score is an exact fraction.                                    *)
(***************************************************************************)
min_net_credit == 25

\* line 64: min_credit or self.roll_criteria['min_net_credit'] (0 is falsy)
MinCreditInEffect(min_credit) ==
    IF ~IsNone(min_credit) /\ Val(min_credit) # 0 THEN Val(min_credit) ELSE min_net_credit

\* _estimate_close_cost
EstimateCloseCost(pos, current_price, clock) ==
    IF DaysRemaining(pos, clock) <= 0
    THEN IF pos.option_type = "put"
         THEN 100 * Max(0, pos.strike - current_price)
         ELSE 100 * Max(0, current_price - pos.strike)
    ELSE LET below95 == IF pos.option_type = "put"
                        THEN 100 * current_price < 95 * pos.strike
                        ELSE 100 * pos.strike < 95 * current_price
             below100 == IF pos.option_type = "put"
                         THEN current_price < pos.strike
                         ELSE pos.strike < current_price
             decay_tenths == IF below95 THEN 3 ELSE IF below100 THEN 5 ELSE 7
         IN  Max(0, (pos.premium * decay_tenths) \div 10)

\* lines 85-96: the expirations later than the current one, all of them when
\* the current expiration does not parse
FutureExpirations(pos, expirations) ==
    IF IsNone(pos.expiration) THEN expirations
    ELSE SelectSeq(expirations, LAMBDA e : Val(e) > Val(pos.expiration))

\* _classify_roll_type
ClassifyRollType(current_strike, new_strike, current_exp, new_exp, option_type) ==
    LET time_extended == IF IsNone(current_exp) THEN TRUE
                         ELSE Val(new_exp) - Val(current_exp) > 7
    IN  IF 100 * Abs(new_strike - current_strike) < 2 * current_strike
        THEN IF time_extended THEN "roll_out" ELSE "roll_same"
        ELSE IF option_type = "put"
        THEN IF new_strike < current_strike
             THEN IF time_extended THEN "roll_out_and_down" ELSE "roll_down"
             ELSE IF time_extended THEN "roll_out_and_up" ELSE "roll_up"
        ELSE IF new_strike > current_strike
             THEN IF time_extended THEN "roll_out_and_up" ELSE "roll_up"
             ELSE IF time_extended THEN "roll_out_and_down" ELSE "roll_down"

RollTypeScore(roll_type) ==
    CASE roll_type = "roll_out_and_down" -> 10
      [] roll_type = "roll_out" -> 9
      [] roll_type = "roll_down" -> 8
      [] roll_type = "roll_out_and_up" -> 7
      [] roll_type = "roll_up" -> 5
      [] roll_type = "roll_same" -> 6

FracAdd(x, y) == <<x[1] * y[2] + y[1] * x[2], x[2] * y[2]>>
FracMin(x, y) == IF FracLess(y, x) THEN y ELSE x

\* _calculate_improvement_score; new_annual_return is a fraction of percent
CalculateImprovementScore(net_credit, new_annual_return, new_prob_otm, roll_type) ==
    LET credit_score == FracMin(<<40, 1>>, <<net_credit * 4, 15>>)
        return_score == IF FracAtLeast(new_annual_return, 40) THEN <<30, 1>>
                        ELSE IF FracAtLeast(new_annual_return, 30) THEN <<25, 1>>
                        ELSE IF FracAtLeast(new_annual_return, 20) THEN <<20, 1>>
                        ELSE new_annual_return
        rest == <<new_prob_otm + 5 * RollTypeScore(roll_type), 5>>
    IN  FracMin(<<100, 1>>, FracAdd(FracAdd(credit_score, rest), return_score))

\* lines 129-135: the bid, else the last price
NewPremium(option, columns) ==
    LET bid == IF "bid" \in columns THEN option.bid ELSE 0
    IN  IF bid > 0 THEN bid
        ELSE IF "lastPrice" \in columns THEN option.lastPrice ELSE 0

MeetsMinimumCreditNonNegative(net_credit, min_credit) == ~(net_credit < 0)

\* lines 139-141
MeetsMinimumCredit(net_credit, min_credit) == ~(net_credit < min_credit)

\* lines 117-135: the strike band and a usable premium
InStrikeBand(pos, new_strike) ==
    IF pos.option_type = "put"
    THEN ~(100 * new_strike > 105 * pos.strike)
    ELSE ~(100 * new_strike < 95 * pos.strike)

\* lines 143-186: one candidate
Candidate(pos, option, columns, new_expiration, close_cost, clock) ==
    LET new_premium == NewPremium(option, columns)
        net_credit == new_premium - close_cost
        roll_type == ClassifyRollType(pos.strike, option.strike, pos.expiration,
                                      new_expiration, pos.option_type)
        new_days == CalculateDaysToExpiration(new_expiration, clock)
        new_annual_return == IF option.strike > 0 /\ new_days > 0
                             THEN <<new_premium * 365, option.strike * new_days>>
                             ELSE <<0, 1>>
    IN  [current_strike |-> pos.strike, current_expiration |-> pos.expiration,
         close_cost |-> close_cost, new_strike |-> option.strike,
         new_expiration |-> new_expiration, new_premium |-> new_premium,
         new_days_to_expiration |-> new_days, net_credit |-> net_credit,
         roll_type |-> roll_type, new_annual_return |-> new_annual_return,
         new_prob_otm |-> option.prob_otm,
         improvement_score |-> CalculateImprovementScore(net_credit, new_annual_return,
                                                         option.prob_otm, roll_type)]

\* lines 101-191 for one expiration.  get_option_chain returns the dict
\* {'calls': ..., 'puts': ...} (shape "dict"): chain.empty raises
\* AttributeError, which the except clause turns into `continue`.  A fetch that
\* hands back one table of typed quotes (shape "frame") is evaluated row by row.
CandidatesOf(pos, chain, new_expiration, close_cost, min_credit, clock) ==
    IF chain.shape = "dict" THEN <<>>
    ELSE LET typed == SelectSeq(chain.rows, LAMBDA o : o.option_type = pos.option_type)
             kept == SelectSeq(typed, LAMBDA o :
                        /\ InStrikeBand(pos, o.strike)
                        /\ NewPremium(o, chain.columns) > 0
                        /\ MeetsMinimumCredit(NewPremium(o, chain.columns) - close_cost,
                                              min_credit))
         IN  Map(kept, LAMBDA o : Candidate(pos, o, chain.columns, new_expiration,
                                            close_cost, clock))

RECURSIVE Concat(_)
Concat(ss) == IF Len(ss) = 0 THEN <<>> ELSE Head(ss) \o Concat(Tail(ss))

\* candidates.sort(key=improvement_score, reverse=True): Python's sort is
\* stable, equal scores keep the order in which the candidates were found
SortCandidates(cands) ==
    LET n == Len(cands)
        before(i, j) == \/ FracLess(cands[j].improvement_score, cands[i].improvement_score)
                        \/ /\ ~FracLess(cands[i].improvement_score, cands[j].improvement_score)
                           /\ i < j
        rank(i) == 1 + Cardinality({j \in 1..n : before(j, i)})
        at(k) == CHOOSE i \in 1..n : rank(i) = k
    IN  [k \in 1..n |-> cands[at(k)]]

\* seq[:n]: the first n elements, all but the last -n when n is negative
Prefix(seq, n) ==
    IF n >= 0 THEN SubSeq(seq, 1, Min(n, Len(seq)))
    ELSE SubSeq(seq, 1, Max(0, Len(seq) + n))

MaxExpirationsSearched == 6

\* find_roll_opportunities
FindRollOpportunities(pos, min_credit, max_candidates, market) ==
    IF IsNone(market.price) \/ Val(market.price) = 0 THEN <<>>
    ELSE
    LET floor == MinCreditInEffect(min_credit)
        close_cost == EstimateCloseCost(pos, Val(market.price), market.clock)
        future == Prefix(FutureExpirations(pos, market.expirations), MaxExpirationsSearched)
        found == Concat(Map(future, LAMBDA e :
                     CandidatesOf(pos, market.chain, e, close_cost, floor, market.clock)))
    IN  Prefix(SortCandidates(found), max_candidates)

CallFindRollOpportunities ==
    /\ rollCall.op = "args"
    /\ rollCall' = [rollCall EXCEPT !.op = "returned"] @@
                   [ret |-> FindRollOpportunities(rollCall.position, rollCall.min_credit,
                                                  rollCall.max_candidates, rollCall.market)]
    /\ UNCHANGED <<decision, recommendation, cspInput, cspCall, cspRuns, scoreCall, probCall,
                 cache, analyzerCall, strategyCall,
                 portfolio, portfolio_file, portfolioCall, capital_settings>>

RollQuote(option_type, strike, bid, lastPrice, prob_otm) ==
    [option_type |-> option_type, strike |-> strike, bid |-> bid, lastPrice |-> lastPrice,
     prob_otm |-> prob_otm]

RollQuotes ==
    { RollQuote("put", 100, 150, 140, 60), RollQuote("put", 95, 125, 120, 70),
      RollQuote("put", 95, 0, 90, 70), RollQuote("put", 110, 900, 900, 30),
      RollQuote("put", 90, 0, 0, 80), RollQuote("call", 105, 150, 140, 65),
      RollQuote("call", 90, 1200, 1200, 20) }

MaxChainRows == 2
Chains ==
    { [shape |-> sh, rows |-> [i \in 1..n |-> f[i]], columns |-> c] :
        sh \in {"dict", "frame"}, n \in 0..MaxChainRows, f \in [1..MaxChainRows -> RollQuotes],
        c \in {{"bid", "lastPrice"}, {"lastPrice"}} }

ExpirationLists ==
    { <<>>, <<Some(37)>>, <<Some(23), Some(37)>>, <<Some(31), Some(65)>>,
      <<Some(23), Some(31), Some(37), Some(65)>> }

RollArgs ==
    [op : {"args"},
     position : [option_type : {"put", "call"}, strike : {100},
                 expiration : {Some(30), BadDate}, premium : {200}],
     min_credit : {None, Some(0), Some(-50), Some(50)},
     max_candidates : {-1, 1, 5},
     market : [price : {None, Some(0), Some(90), Some(97), Some(105)},
               clock : {1}, expirations : ExpirationLists, chain : Chains]]

InitRoll ==
    /\ portfolio = Idle /\ portfolio_file = Idle
    /\ portfolioCall = Idle /\ capital_settings = Idle
    /\ strategyCall = Idle
    /\ cache = Idle /\ analyzerCall = Idle
    /\ decision = Idle
    /\ recommendation = Idle
    /\ cspInput = Idle /\ cspCall = Idle /\ cspRuns = <<>>
    /\ rollCall \in RollArgs
    /\ scoreCall = Idle /\ probCall = Idle

NextRoll == CallFindRollOpportunities

SpecRoll == InitRoll /\ [][NextRoll]_vars

(***************************************************************************)
(* EnhancedProbabilityAnalyzer: the four factor scores.  A snapshot field  *)
(* is None when the provider has no value; ratios are in percent, beta and *)
(* the recommendation mean in tenths.                                      *)
(***************************************************************************)
Truthy(x) == ~IsNone(x) /\ Val(x) # 0

\* num / den * 100 > t and < t, for a float64 quotient (x / 0 is +-inf or nan)
PctGreater(num, den, t) ==
    IF den > 0 THEN 100 * num > t * den
    ELSE IF den < 0 THEN 100 * num < t * den ELSE num > 0
PctLess(num, den, t) ==
    IF den > 0 THEN 100 * num < t * den
    ELSE IF den < 0 THEN 100 * num > t * den ELSE num < 0

\* return max(0, min(100, score))
Clamp(score) == Max(0, Min(100, score))

TrendPointsInflated(current, sma_20, sma_50) ==
    IF Truthy(sma_20) /\ Truthy(sma_50) /\ current > Val(sma_20) /\ Val(sma_20) > Val(sma_50)
    THEN 25 ELSE 0

\* 1. trend analysis
TrendPoints(current, sma_20, sma_50) ==
    IF ~(Truthy(sma_20) /\ Truthy(sma_50)) THEN 0
    ELSE LET s20 == Val(sma_20)
             s50 == Val(sma_50)
         IN  IF current > s20 /\ s20 > s50 THEN 15
             ELSE IF current > s20 /\ s20 < s50 THEN 5
             ELSE IF current < s20 /\ s20 > s50 THEN -5
             ELSE IF current < s20 /\ s20 < s50 THEN -15
             ELSE 0

\* 2. distance from the 50-day average
SmaDistancePoints(current, sma_50) ==
    IF ~Truthy(sma_50) THEN 0
    ELSE LET num == current - Val(sma_50)
             den == Val(sma_50)
         IN  IF PctGreater(num, den, 10) THEN 10
             ELSE IF PctGreater(num, den, 5) THEN 5
             ELSE IF PctLess(num, den, -10) THEN -10
             ELSE IF PctLess(num, den, -5) THEN -5
             ELSE 0

\* 3. position in the 52-week range
RangePoints(current, w52_low, w52_high) ==
    IF ~(Truthy(w52_low) /\ Truthy(w52_high)) THEN 0
    ELSE LET num == current - Val(w52_low)
             den == Val(w52_high) - Val(w52_low)
         IN  IF PctGreater(num, den, 80) THEN 5
             ELSE IF PctGreater(num, den, 60) THEN 10
             ELSE IF PctGreater(num, den, 40) THEN 5
             ELSE IF PctLess(num, den, 20) THEN -5
             ELSE 0

\* 4. volume; hist is the list of closes, None when there is no history
VolumePoints(volume, avg_volume, hist) ==
    IF ~(Truthy(volume) /\ Truthy(avg_volume)) THEN 0
    ELSE IF ~PctGreater(Val(volume), Val(avg_volume), 150) THEN 0
    ELSE IF IsNone(hist) \/ Len(Val(hist)) < 2 THEN 0
    ELSE LET closes == Val(hist)
             last == closes[Len(closes)]
             prev == closes[Len(closes) - 1]
         IN  IF PctGreater(last - prev, prev, 0) THEN 5 ELSE -5

\* 5. strike-specific adjustment for puts
StrikePoints(current, strike, option_type) ==
    IF option_type # "put" THEN 0
    ELSE IF PctGreater(current - strike, current, 10) THEN 5
    ELSE IF PctGreater(current - strike, current, 5) THEN 3
    ELSE IF PctLess(current - strike, current, -5) THEN -10
    ELSE 0

TechnicalPoints(d, strike, option_type) ==
    50 + TrendPoints(d.current_price, d.sma_20, d.sma_50)
       + SmaDistancePoints(d.current_price, d.sma_50)
       + RangePoints(d.current_price, d.w52_low, d.w52_high)
       + VolumePoints(d.volume, d.avg_volume, d.hist)
       + StrikePoints(d.current_price, strike, option_type)

\* calculate_technical_score
CalculateTechnicalScore(ticker_data, strike, option_type) ==
    IF IsNone(ticker_data) THEN 50
    ELSE Clamp(TechnicalPoints(Val(ticker_data), strike, option_type))

FundamentalPoints(d) ==
    LET valuation ==
            IF ~(Truthy(d.trailing_pe) /\ Truthy(d.forward_pe)) THEN 0
            ELSE LET f == Val(d.forward_pe)
                 IN  IF 15 <= f /\ f <= 30 THEN 10 ELSE IF f < 15 THEN 5
                     ELSE IF f > 50 THEN -10 ELSE IF f > 35 THEN -5 ELSE 0
        margins ==
            IF ~Truthy(d.profit_margins) THEN 0
            ELSE LET m == Val(d.profit_margins)
                 IN  IF m > 25 THEN 10 ELSE IF m > 15 THEN 5 ELSE IF m < 5 THEN -10 ELSE 0
        roe ==
            IF ~Truthy(d.roe) THEN 0
            ELSE LET r == Val(d.roe)
                 IN  IF r > 20 THEN 5 ELSE IF r > 10 THEN 3 ELSE IF r < 5 THEN -5 ELSE 0
        revenue ==
            IF ~Truthy(d.revenue_growth) THEN 0
            ELSE LET g == Val(d.revenue_growth)
                 IN  IF g > 20 THEN 5 ELSE IF g > 10 THEN 3 ELSE IF g < 0 THEN -5 ELSE 0
        earnings ==
            IF ~Truthy(d.earnings_growth) THEN 0
            ELSE LET g == Val(d.earnings_growth)
                 IN  IF g > 15 THEN 5 ELSE IF g < 0 THEN -5 ELSE 0
        debt ==
            IF IsNone(d.debt_to_equity) THEN 0
            ELSE LET q == Val(d.debt_to_equity)
                 IN  IF q < 50 THEN 10 ELSE IF q < 100 THEN 5
                     ELSE IF q > 200 THEN -10 ELSE IF q > 150 THEN -5 ELSE 0
        beta ==
            IF ~Truthy(d.beta) THEN 0
            ELSE LET b == Val(d.beta)
                 IN  IF 8 <= b /\ b <= 12 THEN 5 ELSE IF b > 15 THEN -5 ELSE 0
    IN  50 + valuation + margins + roe + revenue + earnings + debt + beta

\* calculate_fundamental_score
CalculateFundamentalScore(ticker_data) ==
    IF IsNone(ticker_data) THEN 50 ELSE Clamp(FundamentalPoints(Val(ticker_data)))

SentimentPoints(d) ==
    LET rec ==
            IF ~Truthy(d.recommendation_mean) THEN 0
            ELSE LET m == Val(d.recommendation_mean)
                 IN  IF m < 20 THEN 20 ELSE IF m < 25 THEN 10 ELSE IF m < 35 THEN 0
                     ELSE IF m < 45 THEN -10 ELSE -20
        target ==
            IF ~(Truthy(d.target_mean_price) /\ Truthy(d.current_price)) THEN 0
            ELSE LET num == Val(d.target_mean_price) - Val(d.current_price)
                     den == Val(d.current_price)
                 IN  IF PctGreater(num, den, 20) THEN 15
                     ELSE IF PctGreater(num, den, 10) THEN 10
                     ELSE IF PctGreater(num, den, 0) THEN 5
                     ELSE IF PctLess(num, den, -10) THEN -15 ELSE 0
        coverage ==
            IF ~Truthy(d.num_analysts) THEN 0
            ELSE LET n == Val(d.num_analysts)
                 IN  IF n > 30 THEN 5 ELSE IF n > 15 THEN 3 ELSE IF n < 5 THEN -5 ELSE 0
    IN  50 + rec + target + coverage

\* calculate_sentiment_score
CalculateSentimentScore(ticker_data) ==
    IF IsNone(ticker_data) THEN 50 ELSE Clamp(SentimentPoints(Val(ticker_data)))

EventRiskPoints(d, days_to_expiration, today) ==
    IF IsNone(d.next_earnings) THEN 100
    ELSE LET days_to_earnings == Val(d.next_earnings) - today
         IN  IF 0 <= days_to_earnings /\ days_to_earnings <= days_to_expiration
             THEN IF days_to_earnings < 7 THEN 70
                  ELSE IF days_to_earnings < 14 THEN 80 ELSE 90
             ELSE 100

\* calculate_event_risk_score
CalculateEventRiskScore(ticker_data, days_to_expiration, today) ==
    IF IsNone(ticker_data) THEN 50
    ELSE Clamp(EventRiskPoints(Val(ticker_data), days_to_expiration, today))

CallCalculateTechnicalScore ==
    /\ scoreCall.op = "args" /\ scoreCall.scorer = "technical"
    /\ scoreCall' = [scoreCall EXCEPT !.op = "returned"] @@
           [ret |-> CalculateTechnicalScore(scoreCall.ticker_data, scoreCall.strike,
                                            scoreCall.option_type)]
    /\ UNCHANGED <<decision, recommendation, cspInput, cspCall, cspRuns, rollCall, probCall,
                 cache, analyzerCall, strategyCall,
                 portfolio, portfolio_file, portfolioCall, capital_settings>>

CallCalculateFundamentalScore ==
    /\ scoreCall.op = "args" /\ scoreCall.scorer = "fundamental"
    /\ scoreCall' = [scoreCall EXCEPT !.op = "returned"] @@
           [ret |-> CalculateFundamentalScore(scoreCall.ticker_data)]
    /\ UNCHANGED <<decision, recommendation, cspInput, cspCall, cspRuns, rollCall, probCall,
                 cache, analyzerCall, strategyCall,
                 portfolio, portfolio_file, portfolioCall, capital_settings>>

CallCalculateSentimentScore ==
    /\ scoreCall.op = "args" /\ scoreCall.scorer = "sentiment"
    /\ scoreCall' = [scoreCall EXCEPT !.op = "returned"] @@
           [ret |-> CalculateSentimentScore(scoreCall.ticker_data)]
    /\ UNCHANGED <<decision, recommendation, cspInput, cspCall, cspRuns, rollCall, probCall,
                 cache, analyzerCall, strategyCall,
                 portfolio, portfolio_file, portfolioCall, capital_settings>>

CallCalculateEventRiskScore ==
    /\ scoreCall.op = "args" /\ scoreCall.scorer = "event_risk"
    /\ scoreCall' = [scoreCall EXCEPT !.op = "returned"] @@
           [ret |-> CalculateEventRiskScore(scoreCall.ticker_data,
                                            scoreCall.days_to_expiration, scoreCall.today)]
    /\ UNCHANGED <<decision, recommendation, cspInput, cspCall, cspRuns, rollCall, probCall,
                 cache, analyzerCall, strategyCall,
                 portfolio, portfolio_file, portfolioCall, capital_settings>>

Opt(values) == {None} \cup {Some(v) : v \in values}

TechnicalSnapshots ==
    [current_price : {100}, sma_20 : Opt({95, 105}), sma_50 : Opt({90, 94, 100, 108, 115}),
     w52_low : Opt({50, 60, 70, 90, 95}), w52_high : Opt({90, 102, 120, 150}),
     volume : Opt({100, 200}), avg_volume : Opt({100}),
     hist : Opt({<<100>>, <<90, 100>>, <<110, 100>>})]

TechnicalArgs ==
    [op : {"args"}, scorer : {"technical"}, ticker_data : Opt(TechnicalSnapshots),
     strike : {85, 93, 100, 110}, option_type : {"put", "call"}]

FundamentalSnapshots ==
    [trailing_pe : Opt({20}), forward_pe : Opt({10, 20, 32, 40, 60}),
     profit_margins : Opt({30, 20, 10, 2, 0}), roe : Opt({25, 15, 2}),
     revenue_growth : Opt({25, 15, -5}), earnings_growth : Opt({20, -5}),
     debt_to_equity : Opt({0, 70, 120, 170, 250}), beta : Opt({10, 13, 20})]

FundamentalArgs ==
    [op : {"args"}, scorer : {"fundamental"}, ticker_data : Opt(FundamentalSnapshots)]

SentimentSnapshots ==
    [recommendation_mean : Opt({15, 22, 30, 40, 50}),
     target_mean_price : Opt({130, 115, 105, 100, 95, 85}),
     current_price : Opt({100}), num_analysts : Opt({40, 20, 10, 3})]

SentimentArgs ==
    [op : {"args"}, scorer : {"sentiment"}, ticker_data : Opt(SentimentSnapshots)]

EventSnapshots == [next_earnings : Opt({7, 10, 13, 20, 30, 60})]

EventArgs ==
    [op : {"args"}, scorer : {"event_risk"}, ticker_data : Opt(EventSnapshots),
     days_to_expiration : {0, 5, 30, 45}, today : {10}]

InitScore ==
    /\ portfolio = Idle /\ portfolio_file = Idle
    /\ portfolioCall = Idle /\ capital_settings = Idle
    /\ strategyCall = Idle
    /\ cache = Idle /\ analyzerCall = Idle
    /\ decision = Idle
    /\ recommendation = Idle
    /\ cspInput = Idle /\ cspCall = Idle /\ cspRuns = <<>>
    /\ rollCall = Idle
    /\ probCall = Idle
    /\ scoreCall \in TechnicalArgs \cup FundamentalArgs \cup SentimentArgs \cup EventArgs

NextScore ==
    \/ CallCalculateTechnicalScore
    \/ CallCalculateFundamentalScore
    \/ CallCalculateSentimentScore
    \/ CallCalculateEventRiskScore

SpecScore == InitScore /\ [][NextScore]_vars

(***************************************************************************)
(* GreeksCalculator.calculate_probability_otm.  Volatility is in           *)
(* hundredths.  The value norm.cdf(+-d1) * 100 is kept as the term that    *)
(* computes it: two results are the same float exactly when they are the   *)
(* same term.                                                              *)
(***************************************************************************)
iv_floor == 10
iv_default == 45

EffectiveIVFloorIgnored(implied_vol) == implied_vol

\* lines 113-117
EffectiveIV(implied_vol) == IF implied_vol < iv_floor THEN iv_default ELSE implied_vol

Percent(v) == [kind |-> "percent", value |-> v, negated |-> FALSE, current_price |-> 0,
               strike |-> 0, iv |-> 0, days |-> 0]

\* norm.cdf(d1) * 100, or norm.cdf(-d1) * 100 when negated
CdfPercent(negated, current_price, strike, iv, days) ==
    [kind |-> "cdf", value |-> 0, negated |-> negated, current_price |-> current_price,
     strike |-> strike, iv |-> iv, days |-> days]

Lower(option_type) ==
    CASE option_type \in {"call", "CALL"} -> "call"
      [] option_type \in {"put", "PUT"} -> "put"

\* calculate_probability_otm, called with Python numbers: a zero strike
\* raises ZeroDivisionError, which the bare except turns into 0.0; np.log(0)
\* is -inf, so d1 is -inf and the normal cdf is exactly 0 or 1
CalculateProbabilityOtm(current_price, strike, implied_vol, days, option_type) ==
    IF days <= 0 THEN Percent(0)
    ELSE IF strike = 0 THEN Percent(0)
    ELSE LET effective_iv == EffectiveIV(implied_vol)
             is_call == Lower(option_type) = "call"
         IN  IF current_price = 0
             THEN IF is_call THEN Percent(100) ELSE Percent(0)
             ELSE CdfPercent(is_call, current_price, strike, effective_iv, days)

CallCalculateProbabilityOtm ==
    /\ probCall.op = "args"
    /\ probCall' = [probCall EXCEPT !.op = "returned"] @@
           [ret |-> CalculateProbabilityOtm(probCall.current_price, probCall.strike,
                        probCall.implied_vol, probCall.days, probCall.option_type)]
    /\ UNCHANGED <<decision, recommendation, cspInput, cspCall, cspRuns, rollCall, scoreCall,
                 cache, analyzerCall, strategyCall,
                 portfolio, portfolio_file, portfolioCall, capital_settings>>

MaxVol == 46

ProbArgs ==
    [op : {"args"}, current_price : {0, 90, 100}, strike : {0, 95, 100},
     implied_vol : -1..MaxVol, days : {-1, 0, 1, 30},
     option_type : {"put", "call", "CALL"}]

InitProb ==
    /\ portfolio = Idle /\ portfolio_file = Idle
    /\ portfolioCall = Idle /\ capital_settings = Idle
    /\ strategyCall = Idle
    /\ cache = Idle /\ analyzerCall = Idle
    /\ decision = Idle
    /\ recommendation = Idle
    /\ cspInput = Idle /\ cspCall = Idle /\ cspRuns = <<>>
    /\ rollCall = Idle
    /\ scoreCall = Idle
    /\ probCall \in ProbArgs

NextProb == CallCalculateProbabilityOtm

SpecProb == InitProb /\ [][NextProb]_vars

(***************************************************************************)
(* EnhancedProbabilityAnalyzer: the snapshot cache and the enhanced         *)
(* probability.  A base probability is a whole percentage; the adjustment  *)
(* and the enhanced probability are in thousandths of a point.             *)
(***************************************************************************)
Tickers == {"TICK1", "TICK2"}

Snapshot(sma_20, sma_50, w52_low, w52_high, volume, avg_volume, hist, pe, forward_pe, margins, roe, revenue_growth, earnings_growth, debt_to_equity, beta, rec, target, analysts, next_earnings) ==
    [current_price |-> 100, sma_20 |-> sma_20, sma_50 |-> sma_50, w52_low |-> w52_low,
     w52_high |-> w52_high, volume |-> volume, avg_volume |-> avg_volume, hist |-> hist,
     trailing_pe |-> pe, forward_pe |-> forward_pe, profit_margins |-> margins, roe |-> roe,
     revenue_growth |-> revenue_growth, earnings_growth |-> earnings_growth,
     debt_to_equity |-> debt_to_equity, beta |-> beta, recommendation_mean |-> rec,
     target_mean_price |-> target, num_analysts |-> analysts, next_earnings |-> next_earnings]

Bullish ==
    Snapshot(Some(95), Some(90), Some(50), Some(120), Some(200), Some(100), Some(<<90, 100>>),
             Some(20), Some(20), Some(30), Some(25), Some(25), Some(20), Some(0), Some(10),
             Some(15), Some(130), Some(40), None)
Bearish ==
    Snapshot(Some(105), Some(115), Some(95), Some(150), Some(200), Some(100),
             Some(<<110, 100>>), Some(20), Some(60), Some(2), Some(2), Some(-5), Some(-5),
             Some(250), Some(20), Some(50), Some(85), Some(3), Some(13))
Sparse ==
    Snapshot(None, None, None, None, None, None, None, None, None, None, None, None, None,
             None, None, None, None, None, None)

Snapshots == {Bullish, Bearish, Sparse}

\* what one provider fetch yields: the data, an empty history, or an error
ProviderOutcomes ==
    {[kind |-> "data", data |-> Some(s)] : s \in Snapshots}
        \cup {[kind |-> "empty", data |-> None], [kind |-> "error", data |-> None]}

\* get_stock_data storing whatever the fetch yields, a failure included
GetStockDataStoringFailures(c, ticker, force_refresh, outcome) ==
    IF ~IsNone(c[ticker]) /\ ~force_refresh
    THEN [cache |-> c, fetched |-> 0, ret |-> c[ticker]]
    ELSE [cache |-> [c EXCEPT ![ticker] = outcome.data], fetched |-> 1, ret |-> outcome.data]

GetStockDataIgnoringCache(c, ticker, force_refresh, outcome) ==
    [cache |-> IF outcome.kind = "data" THEN [c EXCEPT ![ticker] = outcome.data] ELSE c,
     fetched |-> 1, ret |-> outcome.data]

\* get_stock_data: the cached snapshot unless a refresh is forced; otherwise
\* one fetch, stored only when it succeeds
GetStockData(c, ticker, force_refresh, outcome) ==
    IF ~IsNone(c[ticker]) /\ ~force_refresh
    THEN [cache |-> c, fetched |-> 0, ret |-> c[ticker]]
    ELSE [cache |-> IF outcome.kind = "data" THEN [c EXCEPT ![ticker] = outcome.data] ELSE c,
          fetched |-> 1, ret |-> outcome.data]

\* 100 * composite_score
CompositeScore(technical, fundamental, sentiment, event_risk) ==
    35 * technical + 25 * fundamental + 20 * sentiment + 20 * event_risk

Milli(base) == IF IsNone(base) THEN None ELSE Some(1000 * Val(base))

EnhancedProbNoneCheck(black_scholes_prob, adjustment) ==
    IF ~IsNone(black_scholes_prob)
    THEN Some(Max(0, Min(100000, 1000 * Val(black_scholes_prob) + adjustment)))
    ELSE None

\* lines 455-460: `if black_scholes_prob:` is false for None and for 0
EnhancedProb(black_scholes_prob, adjustment) ==
    IF Truthy(black_scholes_prob)
    THEN Some(Max(0, Min(100000, 1000 * Val(black_scholes_prob) + adjustment)))
    ELSE None

\* calculate_enhanced_probability on the snapshot get_stock_data returned.
\* (Here and below, a value that is read several times is bound as the element
\* of a one-element set, so that it is computed once.)
EnhancedProbabilityOf(ticker_data, strike, days_to_expiration, option_type, black_scholes_prob, today) ==
    IF IsNone(ticker_data)
    THEN [enhanced_prob_otm |-> Milli(black_scholes_prob),
          black_scholes_prob_otm |-> black_scholes_prob, adjustment |-> 0,
          technical_score |-> 50, fundamental_score |-> 50, sentiment_score |-> 50,
          event_risk_score |-> 50, confidence |-> "low"]
    ELSE LET d == Val(ticker_data)
             scores == <<CalculateTechnicalScore(ticker_data, strike, option_type),
                         CalculateFundamentalScore(ticker_data),
                         CalculateSentimentScore(
                             Some([d EXCEPT !.current_price = Some(d.current_price)])),
                         CalculateEventRiskScore(ticker_data, days_to_expiration, today)>>
         IN  CHOOSE result \in
               {LET technical == s[1]
                    fundamental == s[2]
                    sentiment == s[3]
                    event_risk == s[4]
                    composite == CompositeScore(technical, fundamental, sentiment, event_risk)
                    adjustment == 3 * (composite - 5000)
                IN  [enhanced_prob_otm |-> EnhancedProb(black_scholes_prob, adjustment),
                     black_scholes_prob_otm |-> black_scholes_prob,
                     adjustment |-> adjustment,
                     composite_score |-> composite,
                     technical_score |-> technical, fundamental_score |-> fundamental,
                     sentiment_score |-> sentiment, event_risk_score |-> event_risk,
                     confidence |-> IF Truthy(d.sma_50) /\ Truthy(d.trailing_pe)
                                          /\ Truthy(d.recommendation_mean) THEN "high"
                                    ELSE IF Truthy(d.sma_50) THEN "medium" ELSE "low",
                     ticker_data |-> ticker_data] : s \in {scores}} : TRUE

\* calculate_enhanced_probability, the lookup of the snapshot included
CalculateEnhancedProbability(c, ticker, strike, days_to_expiration, option_type, black_scholes_prob, outcome, today) ==
    CHOOSE result \in
      {[cache |-> got.cache, fetched |-> got.fetched,
        ret |-> EnhancedProbabilityOf(got.ret, strike, days_to_expiration, option_type,
                                      black_scholes_prob, today)]
         : got \in {GetStockData(c, ticker, FALSE, outcome)}} : TRUE

\* lines 495-507: one calculate_enhanced_probability per row, in row order;
\* outcomes are what the provider yields for the fetches the loop makes
RECURSIVE EnrichResults(_, _, _, _)
EnrichResults(rows, c, outcomes, today) ==
    IF Len(rows) = 0 THEN [cache |-> c, fetched |-> 0, results |-> <<>>]
    ELSE CHOOSE result \in
           {CHOOSE both \in
              {[cache |-> rest.cache, fetched |-> first.fetched + rest.fetched,
                results |-> <<first.ret>> \o rest.results]
                 : rest \in {EnrichResults(Tail(rows), first.cache,
                                 IF first.fetched = 1 THEN Tail(outcomes) ELSE outcomes,
                                 today)}} : TRUE
              : first \in {CalculateEnhancedProbability(c, Head(rows).ticker,
                               Head(rows).strike, Head(rows).days_to_expiration,
                               Head(rows).option_type, Head(rows).prob_otm,
                               Head(outcomes), today)}} : TRUE

\* lines 509-519: the new columns are assigned on options_df itself, the
\* caller's table, one after the other; the assignments made before a KeyError
\* stay
OptionsDfAfterEnrich(rows, results) ==
    IF \E i \in 1..Len(rows) : "composite_score" \notin DOMAIN results[i]
    THEN [i \in 1..Len(rows) |->
             rows[i] @@ [enhanced_prob_otm |-> results[i].enhanced_prob_otm,
                         prob_adjustment |-> results[i].adjustment]]
    ELSE [i \in 1..Len(rows) |->
             rows[i] @@ [enhanced_prob_otm |-> results[i].enhanced_prob_otm,
                         prob_adjustment |-> results[i].adjustment,
                         composite_score |-> results[i].composite_score,
                         technical_score |-> results[i].technical_score,
                         fundamental_score |-> results[i].fundamental_score,
                         sentiment_score |-> results[i].sentiment_score,
                         event_risk_score |-> results[i].event_risk_score,
                         prob_confidence |-> results[i].confidence]]

\* enrich_options_dataframe: the new columns are read from the result dicts
\* after the loop; a dict without the key 'composite_score' raises KeyError
\* (the return value is the caller's table: options_df after the call)
EnrichOptionsDataframe(rows, c, outcomes, today) ==
    IF Len(rows) = 0
    THEN [cache |-> c, fetched |-> 0, ret |-> Table(rows), options_df |-> Table(rows)]
    ELSE CHOOSE result \in
           {[cache |-> done.cache, fetched |-> done.fetched,
             options_df |-> Table(OptionsDfAfterEnrich(rows, done.results)),
             ret |-> IF \E i \in 1..Len(rows) :
                            "composite_score" \notin DOMAIN done.results[i]
                     THEN Raise("KeyError")
                     ELSE Table([i \in 1..Len(rows) |->
                              rows[i] @@
                              [enhanced_prob_otm |-> done.results[i].enhanced_prob_otm,
                               prob_adjustment |-> done.results[i].adjustment,
                               composite_score |-> done.results[i].composite_score,
                               technical_score |-> done.results[i].technical_score,
                               fundamental_score |-> done.results[i].fundamental_score,
                               sentiment_score |-> done.results[i].sentiment_score,
                               event_risk_score |-> done.results[i].event_risk_score,
                               prob_confidence |-> done.results[i].confidence]])]
              : done \in {EnrichResults(rows, c, outcomes, today)}} : TRUE

Today == 10

CallGetStockData ==
    \E t \in Tickers, force_refresh \in BOOLEAN, outcome \in ProviderOutcomes :
        \E r \in {GetStockData(cache, t, force_refresh, outcome)} :
        /\ cache' = r.cache
        /\ analyzerCall' = [op |-> "get_stock_data", ticker |-> t,
                            force_refresh |-> force_refresh, fetched |-> r.fetched,
                            ret |-> r.ret]
        /\ UNCHANGED <<decision, recommendation, cspInput, cspCall, cspRuns, rollCall,
                       scoreCall, probCall, strategyCall,
                       portfolio, portfolio_file, portfolioCall, capital_settings>>

BaseProbs == {None, Some(0), Some(5), Some(50), Some(100)}

CallCalculateEnhancedProbability ==
    \E t \in Tickers, k \in {<<85, "put">>, <<110, "call">>},
       base \in BaseProbs, outcome \in ProviderOutcomes :
        \E r \in {CalculateEnhancedProbability(cache, t, k[1], 30, k[2], base, outcome, Today)} :
        /\ cache' = r.cache
        /\ analyzerCall' = [op |-> "calculate_enhanced_probability", ticker |-> t,
                            strike |-> k[1], option_type |-> k[2],
                            black_scholes_prob |-> base, fetched |-> r.fetched,
                            ret |-> r.ret]
        /\ UNCHANGED <<decision, recommendation, cspInput, cspCall, cspRuns, rollCall,
                       scoreCall, probCall, strategyCall,
                       portfolio, portfolio_file, portfolioCall, capital_settings>>

EnrichRow(ticker, strike, option_type, prob_otm) ==
    [ticker |-> ticker, strike |-> strike, current_stock_price |-> 100,
     days_to_expiration |-> 30, option_type |-> option_type, prob_otm |-> prob_otm]

EnrichRows ==
    { EnrichRow("TICK1", 85, "put", Some(75)), EnrichRow("TICK2", 110, "put", Some(0)),
      EnrichRow("TICK1", 110, "call", Some(60)) }

MaxEnrichRows == 2

CallEnrichOptionsDataframe ==
    \E n \in 0..MaxEnrichRows :
    \E rows \in [1..n -> EnrichRows],
       outcomes \in [1..n -> {[kind |-> "data", data |-> Some(Bullish)],
                              [kind |-> "error", data |-> None]}] :
        \E r \in {EnrichOptionsDataframe(rows, cache, outcomes, Today)} :
        /\ cache' = r.cache
        /\ analyzerCall' = [op |-> "enrich_options_dataframe", rows |-> rows,
                            fetched |-> r.fetched, ret |-> r.ret,
                            options_df |-> r.options_df]
        /\ UNCHANGED <<decision, recommendation, cspInput, cspCall, cspRuns, rollCall,
                       scoreCall, probCall, strategyCall,
                       portfolio, portfolio_file, portfolioCall, capital_settings>>

InitAnalyzer ==
    /\ portfolio = Idle /\ portfolio_file = Idle
    /\ portfolioCall = Idle /\ capital_settings = Idle
    /\ strategyCall = Idle
    /\ decision = Idle
    /\ recommendation = Idle
    /\ cspInput = Idle /\ cspCall = Idle /\ cspRuns = <<>>
    /\ rollCall = Idle
    /\ scoreCall = Idle /\ probCall = Idle
    /\ cache = [t \in Tickers |-> None]
    /\ analyzerCall = Idle

NextAnalyzer ==
    \/ CallGetStockData
    \/ CallCalculateEnhancedProbability
    \/ CallEnrichOptionsDataframe

SpecAnalyzer == InitAnalyzer /\ [][NextAnalyzer]_vars

(***************************************************************************)
(* CoveredCallAnalyzer.analyze_covered_calls and the two                   *)
(* get_top_opportunities.                                                  *)
(***************************************************************************)
\* x > 0 for a price that may be missing (NaN)
Usable(x) == ~IsNone(x) /\ Val(x) > 0

\* lines 61-66: the bid when it is positive, else the last price
WithCallPrice(row) ==
    row @@ [price_source |-> IF Usable(row.bid) THEN "bid" ELSE "lastPrice",
            effective_price |-> IF Usable(row.bid) THEN row.bid ELSE row.lastPrice]

StrikeBoundOwnSpot(rows) ==
    Filter(rows, LAMBDA r : /\ 100 * r.strike >= 95 * r.current_stock_price
                            /\ 100 * r.strike <= 150 * r.current_stock_price)

\* lines 49-58: the bound is computed from the first call's spot price
\* (calls['current_stock_price'].iloc[0]) and applied to every row
StrikeBound(rows) ==
    LET current_price == rows[1].current_stock_price
    IN  IF current_price > 0
        THEN Filter(rows, LAMBDA r : /\ 100 * r.strike >= 95 * current_price
                                     /\ 100 * r.strike <= 150 * current_price)
        ELSE rows

\* lines 69-73; a missing (NaN) price compares false
PassesCallFilters(row, a) ==
    /\ row.days_to_expiration <= a.max_days
    /\ row.days_to_expiration > 0
    /\ ~IsNone(row.effective_price) /\ Val(row.effective_price) >= a.min_premium

\* lines 78-108
WithCallMetrics(row) ==
    row @@ [capital_required |-> row.current_stock_price,
            premium_received |-> Val(row.effective_price),
            annual_return |-> CalculateAnnualizedReturn(Val(row.effective_price),
                                  row.current_stock_price, row.days_to_expiration)]

\* analyze_covered_calls
AnalyzeCoveredCalls(table, a) ==
    IF Len(table.rows) = 0 THEN EmptyTable
    ELSE
    LET calls == Filter(table.rows, LAMBDA r : r.option_type = "call")
    IN  IF Len(calls) = 0 THEN EmptyTable
        ELSE
        LET enriched == Map(calls, LAMBDA r :
                            r @@ [days_to_expiration |->
                                     CalculateDaysToExpiration(r.expiration, a.clock)])
            bounded == StrikeBound(enriched)
            priced == Map(bounded, WithCallPrice)
            filtered == Filter(priced, LAMBDA r : PassesCallFilters(r, a))
            measured == Map(filtered, WithCallMetrics)
            returned == Filter(measured, LAMBDA r :
                            /\ FracAtLeast(r.annual_return, a.min_annual_return)
                            /\ (~IsNone(a.min_delta) /\ "delta" \in table.columns
                                    => r.delta >= Val(a.min_delta))
                            /\ (~IsNone(a.max_delta) /\ "delta" \in table.columns
                                    => r.delta <= Val(a.max_delta)))
            scored == Map(returned, LAMBDA r :
                          r @@ [risk_reward_score |-> RiskRewardScore(r, table.columns)])
        IN  Table(SortValues(scored, a.tie))

\* DataFrame.head(n): the first n rows, all but the last -n when n is negative
HeadRows(rows, n) ==
    IF n >= 0 THEN SubSeq(rows, 1, Min(n, Len(rows)))
    ELSE SubSeq(rows, 1, Max(0, Len(rows) + n))

\* results[available_columns]; idx is the row label
Project(row, columns) ==
    [c \in (DOMAIN row) \cap (columns \cup {"idx"}) |-> row[c]]

CallTopColumns ==
    {"ticker", "current_stock_price", "strike", "expiration", "days_to_expiration", "bid",
     "ask", "lastPrice", "premium_received", "annual_return", "monthly_return",
     "income_return", "max_profit", "max_profit_pct", "downside_protection", "distance_pct",
     "prob_otm", "delta", "impliedVolatility", "volume", "openInterest", "moneyness_class",
     "risk_reward_score"}

PutTopColumns ==
    {"ticker", "current_stock_price", "strike", "expiration", "days_to_expiration", "bid",
     "ask", "lastPrice", "premium_received", "price_source", "original_bid", "original_ask",
     "original_lastPrice", "annual_return", "monthly_return", "income_return",
     "net_purchase_price", "discount_from_current", "cushion", "distance_pct", "prob_otm",
     "delta", "impliedVolatility", "volume", "openInterest", "moneyness_class",
     "risk_reward_score", "option_type", "max_affordable_contracts",
     "total_capital_required", "total_premium_received"}

TopOf(results, columns, top_n) ==
    IF results.kind = "raise" THEN results
    ELSE IF Len(results.rows) = 0 THEN EmptyTable
    ELSE Table(HeadRows(Map(results.rows, LAMBDA r : Project(r, columns)), top_n))

\* CoveredCallAnalyzer.get_top_opportunities
GetTopCoveredCalls(table, a) ==
    TopOf(AnalyzeCoveredCalls(table, [a EXCEPT !.min_delta = None, !.max_delta = None]),
          CallTopColumns, a.top_n)

\* CashSecuredPutAnalyzer.get_top_opportunities
GetTopCashSecuredPuts(table, a) ==
    TopOf(AnalyzeCashSecuredPuts(table, a, a.available_cash), PutTopColumns, a.top_n)

CallAnalyzeCoveredCalls ==
    /\ strategyCall.op = "args" /\ strategyCall.fn = "analyze_covered_calls"
    /\ strategyCall' = [strategyCall EXCEPT !.op = "returned"] @@
           [ret |-> AnalyzeCoveredCalls(strategyCall.table, strategyCall)]
    /\ UNCHANGED <<decision, recommendation, cspInput, cspCall, cspRuns, rollCall,
                   scoreCall, probCall, cache, analyzerCall,
                   portfolio, portfolio_file, portfolioCall, capital_settings>>

CallGetTopCoveredCalls ==
    /\ strategyCall.op = "args" /\ strategyCall.fn = "covered_call.get_top_opportunities"
    /\ strategyCall' = [strategyCall EXCEPT !.op = "returned"] @@
           [ret |-> GetTopCoveredCalls(strategyCall.table, strategyCall)]
    /\ UNCHANGED <<decision, recommendation, cspInput, cspCall, cspRuns, rollCall,
                   scoreCall, probCall, cache, analyzerCall,
                   portfolio, portfolio_file, portfolioCall, capital_settings>>

CallGetTopCashSecuredPuts ==
    /\ strategyCall.op = "args"
    /\ strategyCall.fn = "cash_secured_put.get_top_opportunities"
    /\ strategyCall' = [strategyCall EXCEPT !.op = "returned"] @@
           [ret |-> GetTopCashSecuredPuts(strategyCall.table, strategyCall)]
    /\ UNCHANGED <<decision, recommendation, cspInput, cspCall, cspRuns, rollCall,
                   scoreCall, probCall, cache, analyzerCall,
                   portfolio, portfolio_file, portfolioCall, capital_settings>>

CallQuotes ==
    { Quote("TICK1", "call", 50, 52, 31, Some(100), Some(110), Some(105), 100, 40, 60),
      Quote("TICK1", "call", 50, 55, 71, Some(200), Some(210), Some(205), 120, 30, 70),
      Quote("TICK1", "put", 50, 48, 31, Some(150), Some(160), Some(155), 110, -45, 65),
      Quote("TICK1", "call", 50, 80, 31, Some(100), Some(110), Some(105), 100, 10, 90),
      Quote("TICK2", "call", 100, 105, 41, Some(250), Some(260), Some(255), 130, 35, 65),
      Quote("TICK2", "call", 100, 95, 41, Some(0), Some(620), Some(610), 140, 60, 30),
      Quote("TICK2", "call", 100, 140, 41, None, Some(0), None, 140, 5, 95) }

MaxCallRows == 2
CallTables ==
    { [rows |-> [i \in 1..n |-> f[i] @@ [idx |-> i]], columns |-> c] :
        n \in 0..MaxCallRows, f \in [1..MaxCallRows -> CallQuotes],
        c \in {{"volume", "delta", "prob_otm"}, {"volume"}} }

TopNs == {-1, 0, 1, 20}

StrategyArgs ==
    [op : {"args"}, fn : {"analyze_covered_calls"}, table : CallTables,
     min_premium : {50}, min_annual_return : {10}, max_days : {60},
     min_delta : {None, Some(32)}, max_delta : {None, Some(42)}, clock : {1},
     tie : {"input_order", "reversed"}]
    \cup
    [op : {"args"}, fn : {"covered_call.get_top_opportunities"}, table : CallTables,
     min_premium : {50}, min_annual_return : {15}, max_days : {45},
     min_delta : {None}, max_delta : {None}, clock : {1}, tie : {"input_order"},
     top_n : TopNs]
    \cup
    [op : {"args"}, fn : {"cash_secured_put.get_top_opportunities"}, table : Tables,
     min_premium : {50}, min_annual_return : {15}, min_days : {0}, max_days : {45},
     min_prob_otm : {None}, min_volume : {None}, quality_tickers : {None},
     min_delta : {None}, max_delta : {None}, available_cash : {None, Some(15000)},
     max_cash_per_position : {None}, clock : {1}, tie : {"input_order"}, top_n : TopNs]

InitStrategy ==
    /\ portfolio = Idle /\ portfolio_file = Idle
    /\ portfolioCall = Idle /\ capital_settings = Idle
    /\ decision = Idle
    /\ recommendation = Idle
    /\ cspInput = Idle /\ cspCall = Idle /\ cspRuns = <<>>
    /\ rollCall = Idle
    /\ scoreCall = Idle /\ probCall = Idle
    /\ cache = Idle /\ analyzerCall = Idle
    /\ strategyCall \in StrategyArgs

NextStrategy ==
    \/ CallAnalyzeCoveredCalls
    \/ CallGetTopCoveredCalls
    \/ CallGetTopCashSecuredPuts

SpecStrategy == InitStrategy /\ [][NextStrategy]_vars

(***************************************************************************)
(* Portfolio manager (src/portfolio/portfolio_manager.py) and capital      *)
(* calculator (src/portfolio/capital_calculator.py).  Money is in whole    *)
(* dollars; a timestamp is a small integer; a list index is 0-based as in  *)
(* the source, so options[index] is element index + 1 of the sequence.     *)
(***************************************************************************)

\* d[key] = value on a dict: the key is added when it is not there yet.
SetKey(d, key, value) ==
    [k \in DOMAIN d \cup {key} |-> IF k = key THEN value ELSE d[k]]

\* json.dump writes a dict as a JSON object, a set of name/value members, and
\* a list as an array; json.load builds the dict back from the members.
JsonObject(d) == {<<k, d[k]>> : k \in DOMAIN d}

JsonDict(o) == [k \in {m[1] : m \in o} |-> (CHOOSE m \in o : m[1] = k)[2]]

JsonDump(p) ==
    [stocks       |-> [i \in 1..Len(p.stocks) |-> JsonObject(p.stocks[i])],
     options      |-> [i \in 1..Len(p.options) |-> JsonObject(p.options[i])],
     last_updated |-> p.last_updated]

JsonLoad(doc) ==
    [stocks       |-> [i \in 1..Len(doc.stocks) |-> JsonDict(doc.stocks[i])],
     options      |-> [i \in 1..Len(doc.options) |-> JsonDict(doc.options[i])],
     last_updated |-> doc.last_updated]

\* _load_portfolio: the document of the file when it exists, else a portfolio
\* without positions stamped with the time of the call.
LoadPortfolio(file, now) ==
    IF ~IsNone(file)
    THEN JsonLoad(Val(file))
    ELSE [stocks |-> <<>>, options |-> <<>>, last_updated |-> now]

\* _save_portfolio: stamps the portfolio, then writes it to the file.
SavePortfolio(p, now) ==
    LET stamped == [p EXCEPT !.last_updated = now]
    IN  [portfolio |-> stamped, file |-> Some(JsonDump(stamped))]

\* add_option_position: appends an open position and saves.
AddOptionPosition(p, a, now) ==
    LET position == [ticker |-> a.ticker, option_type |-> a.option_type,
                     strike |-> a.strike, expiration |-> a.expiration,
                     contracts |-> a.contracts, premium |-> a.premium,
                     open_date |-> a.open_date, strategy |-> a.strategy,
                     status |-> "open", notes |-> a.notes, added_date |-> now]
    IN  SavePortfolio([p EXCEPT !.options = Append(p.options, position)], now)

\* add_stock_position: appends a stock position and saves.
AddStockPosition(p, a, now) ==
    LET position == [ticker |-> a.ticker, shares |-> a.shares, cost_basis |-> a.cost_basis,
                     purchase_date |-> a.purchase_date, notes |-> a.notes,
                     added_date |-> now]
    IN  SavePortfolio([p EXCEPT !.stocks = Append(p.stocks, position)], now)

\* remove_stock_position: with an index of the stock list, pops that position
\* and saves; with any other index it only prints a message.
RemoveStockPosition(p, file, index, now) ==
    IF 0 <= index /\ index < Len(p.stocks)
    THEN SavePortfolio([p EXCEPT !.stocks = SubSeq(p.stocks, 1, index) \o
                                            SubSeq(p.stocks, index + 2, Len(p.stocks))],
                       now)
    ELSE [portfolio |-> p, file |-> file]

\* The variant of close_option_position that drops the closed position from
\* the list.
CloseOptionPositionRemoving(p, file, index, close_date, close_premium, outcome, now) ==
    IF 0 <= index /\ index < Len(p.options)
    THEN SavePortfolio([p EXCEPT !.options = SubSeq(p.options, 1, index) \o
                                             SubSeq(p.options, index + 2, Len(p.options))],
                       now)
    ELSE [portfolio |-> p, file |-> file]

\* The variant of close_option_position that saves on every call, the index
\* being valid or not.
CloseOptionPositionAlwaysSaving(p, file, index, close_date, close_premium, outcome, now) ==
    IF 0 <= index /\ index < Len(p.options)
    THEN LET closed == SetKey(SetKey(SetKey(SetKey(p.options[index + 1],
                           "status", "closed"), "close_date", close_date),
                           "close_premium", close_premium), "outcome", outcome)
         IN  SavePortfolio([p EXCEPT !.options[index + 1] = closed], now)
    ELSE SavePortfolio(p, now)

\* close_option_position: with an index of the list, marks that position
\* closed and saves; with any other index it only prints a message.
CloseOptionPosition(p, file, index, close_date, close_premium, outcome, now) ==
    IF 0 <= index /\ index < Len(p.options)
    THEN LET closed == SetKey(SetKey(SetKey(SetKey(p.options[index + 1],
                           "status", "closed"), "close_date", close_date),
                           "close_premium", close_premium), "outcome", outcome)
         IN  SavePortfolio([p EXCEPT !.options[index + 1] = closed], now)
    ELSE [portfolio |-> p, file |-> file]

\* get_options_dataframe(status): the option positions of that status.
GetOptionsDataframe(p, status) ==
    IF status = "all"
    THEN p.options
    ELSE SelectSeq(p.options, LAMBDA o : o.status = status)

\* The capital one open position ties up: nothing for a covered call, the
\* secured cash strike * 100 * contracts for every other strategy.
PositionCapital(o) ==
    IF o.strategy = "cash_secured_put" THEN o.strike * 100 * o.contracts
    ELSE IF o.strategy = "covered_call" THEN 0
    ELSE o.strike * 100 * o.contracts

RECURSIVE TotalCapital(_)
TotalCapital(positions) ==
    IF Len(positions) = 0 THEN 0
    ELSE PositionCapital(Head(positions)) + TotalCapital(Tail(positions))

\* calculate_deployed_capital (positions_detail, a listing for display that
\* depends on the wall clock, is not carried).
CalculateDeployedCapital(p) ==
    LET options_df == GetOptionsDataframe(p, "open")
        Of(key, v) == SelectSeq(options_df, LAMBDA o : o[key] = v)
    IN  [total_deployed |-> TotalCapital(options_df),
         by_strategy    |-> [s \in {options_df[i].strategy : i \in 1..Len(options_df)}
                                |-> TotalCapital(Of("strategy", s))],
         by_ticker      |-> [t \in {options_df[i].ticker : i \in 1..Len(options_df)}
                                |-> TotalCapital(Of("ticker", t))],
         position_count |-> Len(options_df)]

\* calculate_available_capital(portfolio_manager = None).
CalculateAvailableCapital(settings, manager) ==
    LET info == CalculateDeployedCapital(Val(manager))
        deployed == IF ~IsNone(manager) THEN info.total_deployed ELSE 0
        current_positions == IF ~IsNone(manager) THEN info.position_count ELSE 0
        total_available == settings.available_cash - settings.reserve_cash
    IN  [total_available     |-> total_available,
         deployed            |-> deployed,
         remaining_for_new   |-> Max(0, total_available - deployed),
         max_per_position    |-> settings.max_cash_per_position,
         positions_available |-> Max(0, settings.max_positions - current_positions),
         reserve_cash        |-> settings.reserve_cash,
         available_cash      |-> settings.available_cash,
         current_positions   |-> current_positions,
         max_positions       |-> settings.max_positions]

\* The variant of get_position_capacity that looks at the capital before the
\* position limit.
GetPositionCapacityCapitalFirst(settings, p) ==
    LET capital_info == CalculateAvailableCapital(settings, Some(p))
    IN  IF capital_info.remaining_for_new <= 0
        THEN [can_open_new |-> FALSE, reason |-> "insufficient_capital",
              max_new_capital |-> 0,
              positions_slots_left |-> capital_info.positions_available]
        ELSE IF capital_info.positions_available <= 0
        THEN [can_open_new |-> FALSE, reason |-> "max_positions_reached",
              max_new_capital |-> 0, positions_slots_left |-> 0]
        ELSE [can_open_new |-> TRUE, reason |-> "capacity_available",
              max_new_capital |-> Min(capital_info.remaining_for_new,
                                      capital_info.max_per_position),
              positions_slots_left |-> capital_info.positions_available]

\* get_position_capacity: the query takes the portfolio only, no position size.
GetPositionCapacity(settings, p) ==
    LET capital_info == CalculateAvailableCapital(settings, Some(p))
    IN  IF capital_info.positions_available <= 0
        THEN [can_open_new |-> FALSE, reason |-> "max_positions_reached",
              max_new_capital |-> 0, positions_slots_left |-> 0]
        ELSE IF capital_info.remaining_for_new <= 0
        THEN [can_open_new |-> FALSE, reason |-> "insufficient_capital",
              max_new_capital |-> 0,
              positions_slots_left |-> capital_info.positions_available]
        ELSE [can_open_new |-> TRUE, reason |-> "capacity_available",
              max_new_capital |-> Min(capital_info.remaining_for_new,
                                      capital_info.max_per_position),
              positions_slots_left |-> capital_info.positions_available]

\* Inputs of the portfolio operations.
Times == {1}

MaxOptions == 2

MaxStocks == 1

StockArgs ==
    {[ticker |-> "AAPL", shares |-> 100, cost_basis |-> 150,
      purchase_date |-> "2023-01-15", notes |-> ""]}

OptionArgs ==
    {[ticker |-> "SPY", option_type |-> "put", strike |-> 150,
      expiration |-> "2024-09-20", contracts |-> 2, premium |-> 550,
      open_date |-> "2023-08-01", strategy |-> "cash_secured_put", notes |-> ""],
     [ticker |-> "AAPL", option_type |-> "call", strike |-> 170,
      expiration |-> "2024-12-20", contracts |-> 1, premium |-> 250,
      open_date |-> "2023-06-01", strategy |-> "covered_call", notes |-> ""],
     [ticker |-> "AAPL", option_type |-> "put", strike |-> 100,
      expiration |-> "2024-12-20", contracts |-> 1, premium |-> 250,
      open_date |-> "2023-06-01", strategy |-> "", notes |-> ""]}

CloseArgs ==
    {[close_date |-> "2023-09-01", close_premium |-> 0, outcome |-> "expired"],
     [close_date |-> "2023-09-15", close_premium |-> 120, outcome |-> "bought_back"]}

CapitalSettings ==
    {[available_cash |-> 38000, max_cash_per_position |-> 30000,
      reserve_cash |-> 3000, max_positions |-> 4],
     [available_cash |-> 38000, max_cash_per_position |-> 30000,
      reserve_cash |-> 3000, max_positions |-> 2],
     [available_cash |-> 12000, max_cash_per_position |-> 5000,
      reserve_cash |-> 3000, max_positions |-> 1],
     [available_cash |-> 2000, max_cash_per_position |-> 5000,
      reserve_cash |-> 3000, max_positions |-> 2]}

\* PortfolioManager(portfolio_file): a manager built on the same file.
CallPortfolioManager ==
    \E now \in Times :
        /\ portfolio' = LoadPortfolio(portfolio_file, now)
        /\ portfolioCall' = [op |-> "PortfolioManager"]
        /\ UNCHANGED <<portfolio_file, capital_settings>>
        /\ UNCHANGED <<decision, recommendation, cspInput, cspCall, cspRuns, rollCall,
                       scoreCall, probCall, cache, analyzerCall, strategyCall>>

CallAddOptionPosition ==
    \E a \in OptionArgs, now \in Times :
        /\ Len(portfolio.options) < MaxOptions
        /\ \E done \in {AddOptionPosition(portfolio, a, now)} :
              /\ portfolio' = done.portfolio
              /\ portfolio_file' = done.file
        /\ portfolioCall' = [op |-> "add_option_position", args |-> a]
        /\ UNCHANGED capital_settings
        /\ UNCHANGED <<decision, recommendation, cspInput, cspCall, cspRuns, rollCall,
                       scoreCall, probCall, cache, analyzerCall, strategyCall>>

CallCloseOptionPosition ==
    \E index \in -1..Len(portfolio.options), c \in CloseArgs, now \in Times :
        /\ \E done \in {CloseOptionPosition(portfolio, portfolio_file, index,
                        c.close_date, c.close_premium, c.outcome, now)} :
              /\ portfolio' = done.portfolio
              /\ portfolio_file' = done.file
        /\ portfolioCall' = [op |-> "close_option_position", index |-> index,
                             close_date |-> c.close_date,
                             close_premium |-> c.close_premium,
                             outcome |-> c.outcome]
        /\ UNCHANGED capital_settings
        /\ UNCHANGED <<decision, recommendation, cspInput, cspCall, cspRuns, rollCall,
                       scoreCall, probCall, cache, analyzerCall, strategyCall>>

CallAddStockPosition ==
    \E a \in StockArgs, now \in Times :
        /\ Len(portfolio.stocks) < MaxStocks
        /\ \E done \in {AddStockPosition(portfolio, a, now)} :
              /\ portfolio' = done.portfolio
              /\ portfolio_file' = done.file
        /\ portfolioCall' = [op |-> "add_stock_position", args |-> a]
        /\ UNCHANGED capital_settings
        /\ UNCHANGED <<decision, recommendation, cspInput, cspCall, cspRuns, rollCall,
                       scoreCall, probCall, cache, analyzerCall, strategyCall>>

CallRemoveStockPosition ==
    \E index \in -1..Len(portfolio.stocks), now \in Times :
        /\ \E done \in {RemoveStockPosition(portfolio, portfolio_file, index, now)} :
              /\ portfolio' = done.portfolio
              /\ portfolio_file' = done.file
        /\ portfolioCall' = [op |-> "remove_stock_position", index |-> index]
        /\ UNCHANGED capital_settings
        /\ UNCHANGED <<decision, recommendation, cspInput, cspCall, cspRuns, rollCall,
                       scoreCall, probCall, cache, analyzerCall, strategyCall>>

CallCalculateAvailableCapital ==
    \E manager \in {None, Some(portfolio)} :
        /\ portfolioCall' = [op |-> "calculate_available_capital",
                             portfolio_manager |-> manager,
                             ret |-> CalculateAvailableCapital(capital_settings, manager)]
        /\ UNCHANGED <<portfolio, portfolio_file, capital_settings>>
        /\ UNCHANGED <<decision, recommendation, cspInput, cspCall, cspRuns, rollCall,
                       scoreCall, probCall, cache, analyzerCall, strategyCall>>

CallGetPositionCapacity ==
    /\ portfolioCall' = [op |-> "get_position_capacity",
                         ret |-> GetPositionCapacity(capital_settings, portfolio)]
    /\ UNCHANGED <<portfolio, portfolio_file, capital_settings>>
    /\ UNCHANGED <<decision, recommendation, cspInput, cspCall, cspRuns, rollCall,
                   scoreCall, probCall, cache, analyzerCall, strategyCall>>

InitPortfolio ==
    /\ decision = Idle
    /\ recommendation = Idle
    /\ cspInput = Idle /\ cspCall = Idle /\ cspRuns = <<>>
    /\ rollCall = Idle
    /\ scoreCall = Idle /\ probCall = Idle
    /\ cache = Idle /\ analyzerCall = Idle
    /\ strategyCall = Idle
    /\ portfolio_file = None
    /\ \E now \in Times : portfolio = LoadPortfolio(portfolio_file, now)
    /\ portfolioCall = [op |-> "PortfolioManager"]
    /\ capital_settings \in CapitalSettings

NextPortfolio ==
    \/ CallPortfolioManager
    \/ CallAddOptionPosition
    \/ CallCloseOptionPosition
    \/ CallAddStockPosition
    \/ CallRemoveStockPosition
    \/ CallCalculateAvailableCapital
    \/ CallGetPositionCapacity

SpecPortfolio == InitPortfolio /\ [][NextPortfolio]_vars

InitDetermine ==
    /\ portfolio = Idle /\ portfolio_file = Idle
    /\ portfolioCall = Idle /\ capital_settings = Idle
    /\ strategyCall = Idle
    /\ cache = Idle /\ analyzerCall = Idle
    /\ decision \in DetermineArgs
    /\ recommendation = Idle
    /\ cspInput = Idle /\ cspCall = Idle /\ cspRuns = <<>>
    /\ rollCall = Idle
    /\ scoreCall = Idle /\ probCall = Idle

NextDetermine == CallDetermineAction

SpecDetermine == InitDetermine /\ [][NextDetermine]_vars

InitAnalyze ==
    /\ portfolio = Idle /\ portfolio_file = Idle
    /\ portfolioCall = Idle /\ capital_settings = Idle
    /\ strategyCall = Idle
    /\ cache = Idle /\ analyzerCall = Idle
    /\ decision = Idle
    /\ recommendation \in AnalyzeArgs
    /\ cspInput = Idle /\ cspCall = Idle /\ cspRuns = <<>>
    /\ rollCall = Idle
    /\ scoreCall = Idle /\ probCall = Idle

NextAnalyze == CallAnalyzeOptionPosition

SpecAnalyze == InitAnalyze /\ [][NextAnalyze]_vars

(***************************************************************************)
(* C1: _determine_action takes the first matching branch of the priority   *)
(* list: ITM with fewer than 7 days -> CLOSE_EARLY 5; P&L% >= 75 ->        *)
(* CLOSE_EARLY 4; P&L% >= 50 with at most 21 days -> CLOSE_EARLY 3;        *)
(* probability-OTM < 45 -> CLOSE_EARLY 5; at most 21 days with P&L% < 50   *)
(* -> ROLL 3; a probability or technical delta beyond 15 ->                *)
(* ADJUST_TARGETS 2; otherwise HOLD 1.                                     *)
(***************************************************************************)
B1(d) == d.moneyness = "ITM" /\ d.days_remaining < 7
B2(d) == d.pnl_pct >= 75
B3(d) == d.pnl_pct >= 50 /\ d.days_remaining <= 21
B4(d) == d.prob_otm < 45
B5(d) == d.days_remaining <= 21 /\ d.pnl_pct < 50
B6(d) == Abs(d.prob_change) > 15 \/ Abs(d.tech_change) > 15
Is(d, a, u) == d.ret.action = a /\ d.ret.urgency = u

C1_PriorityOrder ==
    decision.op = "determine" =>
        LET d == decision IN
        /\ B1(d) => Is(d, "CLOSE_EARLY", 5)
        /\ ~B1(d) /\ B2(d) => Is(d, "CLOSE_EARLY", 4)
        /\ ~B1(d) /\ ~B2(d) /\ B3(d) => Is(d, "CLOSE_EARLY", 3)
        /\ ~B1(d) /\ ~B2(d) /\ ~B3(d) /\ B4(d) => Is(d, "CLOSE_EARLY", 5)
        /\ ~B1(d) /\ ~B2(d) /\ ~B3(d) /\ ~B4(d) /\ B5(d) => Is(d, "ROLL", 3)
        /\ ~B1(d) /\ ~B2(d) /\ ~B3(d) /\ ~B4(d) /\ ~B5(d) /\ B6(d)
               => Is(d, "ADJUST_TARGETS", 2)
        /\ ~B1(d) /\ ~B2(d) /\ ~B3(d) /\ ~B4(d) /\ ~B5(d) /\ ~B6(d) => Is(d, "HOLD", 1)

C1_Witness ==
    /\ decision.op = "determine"
    /\ decision.moneyness = "ITM" /\ decision.days_remaining = 5
    /\ decision.pnl_pct = 80
    /\ decision.ret.urgency = 5 /\ decision.ret.branch = "itm_assignment"

(***************************************************************************)
(* C2 as stated: every position that is in the money (put: spot below      *)
(* strike; call: spot above strike) with fewer than 7 days remaining is    *)
(* answered CLOSE_EARLY with urgency 5.                                    *)
(***************************************************************************)
InTheMoney(r) ==
    /\ ~IsNone(r.spot)
    /\ IF r.position.option_type = "put"
       THEN Val(r.spot) < r.position.strike
       ELSE Val(r.spot) > r.position.strike

C2_Original ==
    (recommendation.op = "analyze" /\ InTheMoney(recommendation)
        /\ recommendation.days_remaining < 7)
    => (recommendation.action = "CLOSE_EARLY" /\ recommendation.urgency = 5)

(***************************************************************************)
(* C2 amended: every position that is in the money by at least 2% of its   *)
(* strike with fewer than 7 days remaining is answered CLOSE_EARLY with    *)
(* urgency 5; within 2% of the strike the position counts as ATM and the   *)
(* later branches decide.                                                  *)
(***************************************************************************)
OutsideAtmBand(r) == 100 * Abs(Val(r.spot) - r.position.strike) >= 2 * r.position.strike

C2_ItmOutsideBandClosesEarly ==
    (recommendation.op = "analyze" /\ InTheMoney(recommendation)
        /\ OutsideAtmBand(recommendation) /\ recommendation.days_remaining < 7)
    => (recommendation.action = "CLOSE_EARLY" /\ recommendation.urgency = 5
        /\ recommendation.branch = "itm_assignment")

C2_Witness ==
    /\ recommendation.op = "analyze"
    /\ recommendation.position.option_type = "put"
    /\ recommendation.position.strike = 90
    /\ recommendation.spot = Some(80)
    /\ recommendation.days_remaining = 5
    /\ recommendation.action = "CLOSE_EARLY" /\ recommendation.urgency = 5

(***************************************************************************)
(* C3 as stated: with a budget, a put's max affordable contracts is        *)
(* floor(max_cash_per_position / (strike*100)) capped by                   *)
(* floor(available_cash / (strike*100)), so no returned opportunity has    *)
(* strike*100 > available_cash.                                            *)
(***************************************************************************)
C3_CappedByAvailableCash ==
    \A k \in 1..Len(cspRuns) :
        LET cash == cspCall.available_cash[k]
            per_position == cspCall.max_cash_per_position
        IN  ~IsNone(cash) =>
                \A i \in 1..Len(cspRuns[k].rows) :
                    LET r == cspRuns[k].rows[i] IN
                    /\ r.strike * 100 <= Val(cash)
                    /\ r.max_affordable_contracts =
                         IF IsNone(per_position) THEN Val(cash) \div (r.strike * 100)
                         ELSE Min(Val(per_position) \div (r.strike * 100),
                                  Val(cash) \div (r.strike * 100))

(***************************************************************************)
(* C8 as stated: analyze_cash_secured_puts returns an empty table and      *)
(* never raises when the input is empty or holds no put.                   *)
(***************************************************************************)
NoPutGiven == \A i \in 1..Len(cspCall.given.rows) : cspCall.given.rows[i].option_type # "put"

C8_EmptyNeverRaises ==
    \A k \in 1..Len(cspRuns) :
        /\ cspRuns[k].kind = "table"
        /\ NoPutGiven => cspRuns[k].rows = <<>>

Returned(run) == {run.rows[i].idx : i \in 1..Len(run.rows)}

C10_CashMonotonic ==
    (/\ Len(cspRuns) = 2
     /\ ~IsNone(cspCall.available_cash[1]) /\ ~IsNone(cspCall.available_cash[2])
     /\ Val(cspCall.available_cash[1]) <= Val(cspCall.available_cash[2])
     /\ cspRuns[1].kind = "table" /\ cspRuns[2].kind = "table")
    => /\ Len(cspRuns[1].rows) <= Len(cspRuns[2].rows)
       /\ Returned(cspRuns[1]) \subseteq Returned(cspRuns[2])

C10_Witness ==
    /\ Len(cspRuns) = 2
    /\ ~IsNone(cspCall.available_cash[1]) /\ ~IsNone(cspCall.available_cash[2])
    /\ Val(cspCall.available_cash[1]) < Val(cspCall.available_cash[2])
    /\ Len(cspRuns[1].rows) = 1
    /\ Len(cspRuns[2].rows) = 2

EveryTechnicalBonus(c) ==
    /\ c.scorer = "technical" /\ ~IsNone(c.ticker_data)
    /\ LET d == Val(c.ticker_data) IN
       /\ TrendPoints(d.current_price, d.sma_20, d.sma_50) = 15
       /\ SmaDistancePoints(d.current_price, d.sma_50) = 10
       /\ RangePoints(d.current_price, d.w52_low, d.w52_high) = 10
       /\ VolumePoints(d.volume, d.avg_volume, d.hist) = 5
       /\ StrikePoints(d.current_price, c.strike, c.option_type) = 5

C5_Original ==
    scoreCall.op = "returned" =>
        /\ scoreCall.ret \in 0..100
        /\ EveryTechnicalBonus(scoreCall) =>
              /\ TechnicalPoints(Val(scoreCall.ticker_data), scoreCall.strike,
                                 scoreCall.option_type) > 100
              /\ scoreCall.ret = 100

(***************************************************************************)
(* C5 amended: each of the four sub-scores lies in [0,100], and the        *)
(* stacked point adjustments never leave that range, so the clamp never    *)
(* changes a score: technical 5..95 (every positive bonus: 95),            *)
(* fundamental 0..100, sentiment 10..90, event risk 70..100; 50 without a  *)
(* snapshot.                                                               *)
(***************************************************************************)
PointsOf(c) ==
    IF IsNone(c.ticker_data) THEN 50
    ELSE LET d == Val(c.ticker_data) IN
         CASE c.scorer = "technical" -> TechnicalPoints(d, c.strike, c.option_type)
           [] c.scorer = "fundamental" -> FundamentalPoints(d)
           [] c.scorer = "sentiment" -> SentimentPoints(d)
           [] c.scorer = "event_risk" -> EventRiskPoints(d, c.days_to_expiration, c.today)

C5_ScoresInRangeUnclamped ==
    scoreCall.op = "returned" =>
        /\ scoreCall.ret \in 0..100
        /\ scoreCall.ret = PointsOf(scoreCall)
        /\ scoreCall.scorer = "technical" => scoreCall.ret \in 5..95
        /\ scoreCall.scorer = "sentiment" => scoreCall.ret \in 10..90
        /\ scoreCall.scorer = "event_risk" => scoreCall.ret \in {50} \cup (70..100)
        /\ EveryTechnicalBonus(scoreCall) => scoreCall.ret = 95

C5_Witness ==
    /\ scoreCall.op = "returned"
    /\ EveryTechnicalBonus(scoreCall)
    /\ scoreCall.ret = 95

C7_ZeroDaysOrZeroVolIsZero ==
    (probCall.op = "returned" /\ (probCall.days = 0 \/ probCall.implied_vol = 0)) =>
        probCall.ret = Percent(0)

(***************************************************************************)
(* C11 as stated: every returned put carries the effective price chosen by *)
(* the priority bid (present and > 0), else last price (> 0), else half    *)
(* the ask (> 0), tagged 'bid', 'lastPrice' or 'ask/2'; a quote with none  *)
(* of the three usable is never returned, whatever the filter parameters.  *)
(***************************************************************************)
C11_EffectivePriceOrRejected ==
    \A k \in 1..Len(cspRuns) :
        cspRuns[k].kind = "table" =>
            \A i \in 1..Len(cspRuns[k].rows) :
                LET r == cspRuns[k].rows[i] IN
                /\ Usable(r.bid) \/ Usable(r.lastPrice) \/ Usable(r.ask)
                /\ Usable(r.bid) =>
                      r.effective_price = Val(r.bid) /\ r.price_source = "bid"
                /\ (~Usable(r.bid) /\ Usable(r.lastPrice)) =>
                      r.effective_price = Val(r.lastPrice) /\ r.price_source = "lastPrice"
                /\ (~Usable(r.bid) /\ ~Usable(r.lastPrice) /\ Usable(r.ask)) =>
                      2 * r.effective_price = Val(r.ask) /\ r.price_source = "ask/2"

(***************************************************************************)
(* C12 as stated: for every base probability in [0,100], 0 included, and   *)
(* every available snapshot, calculate_enhanced_probability returns        *)
(* enhanced = clamp(base + ((composite - 50) / 50) * 15, 0, 100) with      *)
(* composite = 0.35 technical + 0.25 fundamental + 0.20 sentiment          *)
(* + 0.20 event risk: a number in [0,100] within 15 points of the base.    *)
(***************************************************************************)
C12_EnhancedIsClampedAdjustment ==
    (/\ analyzerCall.op = "calculate_enhanced_probability"
     /\ "composite_score" \in DOMAIN analyzerCall.ret
     /\ ~IsNone(analyzerCall.black_scholes_prob))
    => LET r == analyzerCall.ret
           base == 1000 * Val(analyzerCall.black_scholes_prob)
           composite == 35 * r.technical_score + 25 * r.fundamental_score
                            + 20 * r.sentiment_score + 20 * r.event_risk_score
           expected == Max(0, Min(100000, base + 3 * (composite - 5000)))
       IN  /\ r.composite_score = composite
           /\ r.enhanced_prob_otm = Some(expected)
           /\ expected \in 0..100000
           /\ Abs(expected - base) <= 15000

(***************************************************************************)
(* C13 as stated: when a ticker's snapshot is unavailable,                 *)
(* calculate_enhanced_probability returns the four sub-scores as 50 and an *)
(* enhanced probability equal to the base, and enrich_options_dataframe    *)
(* over a table with such a ticker completes without raising and returns   *)
(* every row enriched.                                                     *)
(***************************************************************************)
C13_DegradesGracefully ==
    /\ (/\ analyzerCall.op = "calculate_enhanced_probability"
        /\ "ticker_data" \notin DOMAIN analyzerCall.ret)
       => LET r == analyzerCall.ret IN
          /\ r.technical_score = 50 /\ r.fundamental_score = 50
          /\ r.sentiment_score = 50 /\ r.event_risk_score = 50
          /\ r.enhanced_prob_otm = Milli(analyzerCall.black_scholes_prob)
    /\ analyzerCall.op = "enrich_options_dataframe"
       => /\ analyzerCall.ret.kind = "table"
          /\ Len(analyzerCall.ret.rows) = Len(analyzerCall.rows)

C15_SafetyDistanceFilter ==
    \A k \in 1..Len(cspRuns) :
        cspRuns[k].kind = "table" =>
            \A i \in 1..Len(cspRuns[k].rows) :
                LET r == cspRuns[k].rows[i] IN
                100 * (r.current_stock_price - r.strike)
                    >= cspCall.min_distance_pct * r.current_stock_price

(***************************************************************************)
(* C16 as stated: analyze_covered_calls keeps or drops each call on its    *)
(* own row's values.  The rows returned are exactly the calls with         *)
(* 0 < days <= max_days, effective price >= min_premium, return and delta  *)
(* within the thresholds, and a strike between 95% and 150% of that row's  *)
(* own spot price.                                                         *)
(***************************************************************************)
KeptOnOwnValues(row, a, columns) ==
    LET days == CalculateDaysToExpiration(row.expiration, a.clock)
        price == IF Usable(row.bid) THEN row.bid ELSE row.lastPrice
    IN  /\ row.option_type = "call"
        /\ 100 * row.strike >= 95 * row.current_stock_price
        /\ 100 * row.strike <= 150 * row.current_stock_price
        /\ days > 0 /\ days <= a.max_days
        /\ ~IsNone(price) /\ Val(price) >= a.min_premium
        /\ FracAtLeast(CalculateAnnualizedReturn(Val(price), row.current_stock_price, days),
                       a.min_annual_return)
        /\ (~IsNone(a.min_delta) /\ "delta" \in columns => row.delta >= Val(a.min_delta))
        /\ (~IsNone(a.max_delta) /\ "delta" \in columns => row.delta <= Val(a.max_delta))

C16_KeptOnOwnRow ==
    (strategyCall.op = "returned" /\ strategyCall.fn = "analyze_covered_calls") =>
        Returned(strategyCall.ret) =
            {i \in 1..Len(strategyCall.table.rows) :
                KeptOnOwnValues(strategyCall.table.rows[i], strategyCall,
                                strategyCall.table.columns)}

(***************************************************************************)
(* C18 as stated: a negative top_n passed to either get_top_opportunities, *)
(* or a negative max_candidates passed to find_roll_opportunities, raises  *)
(* an error instead of returning a table or a list.                        *)
(***************************************************************************)
C18_NegativeCountFailsFast ==
    /\ (/\ strategyCall.op = "returned"
        /\ strategyCall.fn \in {"covered_call.get_top_opportunities",
                                "cash_secured_put.get_top_opportunities"}
        /\ strategyCall.top_n < 0)
       => strategyCall.ret.kind = "raise"
    /\ ~(rollCall.op = "returned" /\ rollCall.max_candidates < 0)

\* The open option positions of the portfolio, by position in the list, and
\* what they tie up, counted position by position.
OpenIndices(p) == {i \in 1..Len(p.options) : p.options[i].status = "open"}

RECURSIVE DeployedOver(_, _)
DeployedOver(p, indices) ==
    IF indices = {} THEN 0
    ELSE LET i == CHOOSE j \in indices : TRUE
             o == p.options[i]
         IN  (IF o.strategy = "covered_call" THEN 0 ELSE o.strike * 100 * o.contracts)
             + DeployedOver(p, indices \ {i})

AvailableForNew(settings, p) ==
    Max(0, settings.available_cash - settings.reserve_cash
           - DeployedOver(p, OpenIndices(p)))

PositionSlots(settings, p) ==
    Max(0, settings.max_positions - Cardinality(OpenIndices(p)))

\* Sizes of a new position a caller may have in mind.
Sizes == {1000, 5000, 10000, 40000}

\* C17 as stated: available-for-new is max(0, available_cash - reserve_cash -
\* deployed) and the slots are max(0, max_positions - open_count); the
\* capacity query, asked about a new position of size X, answers with the
\* position-limit reason when no slot is free, with insufficient capital when
\* the capital does not suffice for X, and says yes only when a slot is free
\* and X fits within both available-for-new and the per-position maximum.
C17_Original ==
    /\ (/\ portfolioCall.op = "calculate_available_capital"
        /\ ~IsNone(portfolioCall.portfolio_manager)) =>
          /\ portfolioCall.ret.remaining_for_new =
                AvailableForNew(capital_settings, portfolio)
          /\ portfolioCall.ret.positions_available =
                PositionSlots(capital_settings, portfolio)
    /\ portfolioCall.op = "get_position_capacity" =>
          \A X \in Sizes :
              LET fits == /\ X <= AvailableForNew(capital_settings, portfolio)
                          /\ X <= capital_settings.max_cash_per_position
                  ret == portfolioCall.ret
              IN  IF PositionSlots(capital_settings, portfolio) = 0
                  THEN ~ret.can_open_new /\ ret.reason = "max_positions_reached"
                  ELSE IF ~fits
                  THEN ~ret.can_open_new /\ ret.reason = "insufficient_capital"
                  ELSE ret.can_open_new /\ ret.reason = "capacity_available"

\* C17 (amended): available-for-new is max(0, available_cash - reserve_cash -
\* deployed) and the slots are max(0, max_positions - open_count); the
\* capacity query takes no position size: it answers no with the
\* position-limit reason when no slot is free (first), no with insufficient
\* capital when a slot is free and available-for-new is 0, and otherwise yes
\* together with the largest capital a new position may take, the smaller of
\* available-for-new and the per-position maximum, so that a size X fits
\* both exactly when X is at most that amount.
C17_CapacityFromSlotsAndCapital ==
    /\ (/\ portfolioCall.op = "calculate_available_capital"
        /\ ~IsNone(portfolioCall.portfolio_manager)) =>
          /\ portfolioCall.ret.remaining_for_new =
                AvailableForNew(capital_settings, portfolio)
          /\ portfolioCall.ret.positions_available =
                PositionSlots(capital_settings, portfolio)
    /\ portfolioCall.op = "get_position_capacity" =>
          LET slots == PositionSlots(capital_settings, portfolio)
              remaining == AvailableForNew(capital_settings, portfolio)
              ret == portfolioCall.ret
          IN  IF slots = 0
              THEN ~ret.can_open_new /\ ret.reason = "max_positions_reached"
              ELSE IF remaining = 0
              THEN /\ ~ret.can_open_new /\ ret.reason = "insufficient_capital"
                   /\ ret.positions_slots_left = slots
              ELSE /\ ret.can_open_new /\ ret.reason = "capacity_available"
                   /\ ret.positions_slots_left = slots
                   /\ \A X \in Sizes :
                         X <= ret.max_new_capital <=>
                            /\ X <= remaining
                            /\ X <= capital_settings.max_cash_per_position

\* The capacity query is asked when neither a slot nor capital is left, with
\* an open position that ties up cash.
C17_Witness ==
    /\ portfolioCall.op = "get_position_capacity"
    /\ PositionSlots(capital_settings, portfolio) = 0
    /\ AvailableForNew(capital_settings, portfolio) = 0
    /\ DeployedOver(portfolio, OpenIndices(portfolio)) > 0
    /\ portfolioCall.ret.reason = "max_positions_reached"

\* The keys close_option_position writes on the position it closes.
CloseKeys == {"status", "close_date", "close_premium", "outcome"}

\* C19: close_option_position with an index outside the option list (negative
\* or at least its length) changes no position and does not rewrite the
\* persisted portfolio (and the operation has no path that raises); with an
\* index of the list it sets that one position's status to "closed" with the
\* given close date, premium and outcome, leaves every other position and
\* every other key of that position unchanged, and persists the result, so
\* that a manager loaded afterwards from the same file sees the same
\* portfolio.
C19_CloseOptionPosition ==
    [][portfolioCall'.op = "close_option_position" =>
         LET index == portfolioCall'.index
             n == Len(portfolio.options)
         IN  IF index < 0 \/ index >= n
             THEN /\ portfolio' = portfolio
                  /\ portfolio_file' = portfolio_file
             ELSE LET old == portfolio.options[index + 1]
                      new == portfolio'.options[index + 1]
                  IN  /\ Len(portfolio'.options) = n
                      /\ portfolio'.stocks = portfolio.stocks
                      /\ \A j \in 1..n :
                            j # index + 1 => portfolio'.options[j] = portfolio.options[j]
                      /\ DOMAIN new = DOMAIN old \cup CloseKeys
                      /\ \A k \in DOMAIN old \ CloseKeys : new[k] = old[k]
                      /\ new.status = "closed"
                      /\ new.close_date = portfolioCall'.close_date
                      /\ new.close_premium = portfolioCall'.close_premium
                      /\ new.outcome = portfolioCall'.outcome
                      /\ ~IsNone(portfolio_file')
                      /\ \A now \in Times :
                            LoadPortfolio(portfolio_file', now) = portfolio']_vars

\* One of two positions has just been closed by a buy-back while the other one
\* is still open, and the file holds that portfolio.
C19_Witness ==
    /\ portfolioCall.op = "close_option_position"
    /\ portfolioCall.outcome = "bought_back"
    /\ Len(portfolio.options) = 2
    /\ portfolioCall.index \in {0, 1}
    /\ portfolio.options[portfolioCall.index + 1].status = "closed"
    /\ portfolio.options[portfolioCall.index + 1].outcome = "bought_back"
    /\ portfolio.options[2 - portfolioCall.index].status = "open"
    /\ portfolio_file = Some(JsonDump(portfolio))

\* C20 as stated: whenever the current probability-OTM is below the warning
\* floor, the recommendation is CLOSE_EARLY with urgency 5, whatever the P&L%
\* and the days remaining.
C20_Original ==
    (decision.op = "determine" /\ decision.prob_otm < min_prob_otm_warning) =>
        /\ decision.ret.action = "CLOSE_EARLY"
        /\ decision.ret.urgency = 5

\* C20 (amended): whenever the current probability-OTM is below the warning
\* floor, the recommendation is CLOSE_EARLY whatever the P&L% and the days
\* remaining; its urgency is 5 unless a profit target is met by a position
\* that is not in the money within the assignment window: then it is the
\* urgency of that profit branch, 4 at the aggressive target and 3 at the
\* standard target within the force-close window.
C20_ProbabilityFloorClosesEarly ==
    (decision.op = "determine" /\ decision.prob_otm < min_prob_otm_warning) =>
        LET assignment == decision.moneyness = "ITM" /\ decision.days_remaining < ItmCloseDays
            aggressive == decision.pnl_pct >= aggressive_target_pct
            standard   == /\ decision.pnl_pct >= standard_target_pct
                          /\ decision.days_remaining <= force_close_dte
        IN  /\ decision.ret.action = "CLOSE_EARLY"
            /\ decision.ret.urgency \in {3, 4, 5}
            /\ decision.ret.urgency = 5 <=> (assignment \/ ~(aggressive \/ standard))
            /\ decision.ret.urgency = 4 <=> (~assignment /\ aggressive)
            /\ decision.ret.urgency = 3 <=> (~assignment /\ ~aggressive /\ standard)

\* The floor branch itself decides: a losing position out of the money, far
\* from expiration, whose probability is below the floor.
C20_Witness ==
    /\ decision.op = "determine"
    /\ decision.prob_otm < min_prob_otm_warning
    /\ decision.pnl_pct < 0
    /\ decision.moneyness = "OTM"
    /\ decision.days_remaining > force_close_dte
    /\ decision.ret.branch = "probability_floor"
    /\ decision.ret.urgency = 5

\* The factor snapshot the provider holds in the analysed market state.
SnapshotOf(name) ==
    IF name = "bullish" THEN Some(Bullish)
    ELSE IF name = "bearish" THEN Some(Bearish) ELSE None

\* C21: analyze_option_position reports the probability-OTM, technical score
\* and composite score the factor scorer yields for the position at the
\* current market state, and reports prob_change and technical_score_change
\* as current minus entry-time value whenever entry-time values were recorded.
C21_RecomputedFromFactorScorer ==
    recommendation.op = "analyze" =>
        LET pos == recommendation.position
            expected == EnhancedProbabilityOf(SnapshotOf(recommendation.snapshot),
                            pos.strike, recommendation.days_remaining,
                            pos.option_type, None, Today)
        IN  /\ recommendation.current_technical_score = expected.technical_score
            /\ "composite_score" \in DOMAIN expected =>
                  100 * recommendation.current_composite_score = expected.composite_score
            /\ ~IsNone(pos.entry_analysis) =>
                  /\ recommendation.prob_change =
                        recommendation.current_prob_otm
                          - Val(pos.entry_analysis).prob_otm_at_entry
                  /\ recommendation.technical_score_change =
                        recommendation.current_technical_score
                          - Val(pos.entry_analysis).technical_score_at_entry

\* The documented bands of the fundamental fields (percentages in points,
\* beta in tenths).
ForwardPeBand(f) ==
    IF 15 <= f /\ f <= 30 THEN 10 ELSE IF f < 15 THEN 5
    ELSE IF f > 50 THEN -10 ELSE IF f > 35 THEN -5 ELSE 0

MarginBand(m) == IF m > 25 THEN 10 ELSE IF m > 15 THEN 5 ELSE IF m < 5 THEN -10 ELSE 0

RoeBand(r) == IF r > 20 THEN 5 ELSE IF r > 10 THEN 3 ELSE IF r < 5 THEN -5 ELSE 0

RevenueBand(g) == IF g > 20 THEN 5 ELSE IF g > 10 THEN 3 ELSE IF g < 0 THEN -5 ELSE 0

EarningsBand(g) == IF g > 15 THEN 5 ELSE IF g < 0 THEN -5 ELSE 0

DebtBand(q) ==
    IF q < 50 THEN 10 ELSE IF q < 100 THEN 5
    ELSE IF q > 200 THEN -10 ELSE IF q > 150 THEN -5 ELSE 0

BetaBand(b) == IF 8 <= b /\ b <= 12 THEN 5 ELSE IF b > 15 THEN -5 ELSE 0

\* C22: the fundamental score is clamp(50 + the sum of the documented band
\* adjustments, 0, 100), each band applied from its own field alone; this
\* includes a field whose value is 0 and a forward P/E given without a
\* trailing P/E.
C22_FundamentalBands ==
    (/\ scoreCall.op = "returned" /\ scoreCall.scorer = "fundamental"
     /\ ~IsNone(scoreCall.ticker_data)) =>
        LET d == Val(scoreCall.ticker_data)
            In(field, band(_)) == IF IsNone(field) THEN 0 ELSE band(Val(field))
        IN  scoreCall.ret =
                Max(0, Min(100, 50 + In(d.forward_pe, ForwardPeBand)
                                   + In(d.profit_margins, MarginBand)
                                   + In(d.roe, RoeBand)
                                   + In(d.revenue_growth, RevenueBand)
                                   + In(d.earnings_growth, EarningsBand)
                                   + In(d.debt_to_equity, DebtBand)
                                   + In(d.beta, BetaBand)))

\* The rows of the fetched chain that qualify as a roll of the position: its
\* option type, a strike inside the allowed band, a positive premium and a net
\* credit of at least the floor in effect.
QualifyingRows(call) ==
    LET chain == call.market.chain
        close_cost == EstimateCloseCost(call.position, Val(call.market.price),
                                        call.market.clock)
    IN  {i \in 1..Len(chain.rows) :
            /\ chain.rows[i].option_type = call.position.option_type
            /\ InStrikeBand(call.position, chain.rows[i].strike)
            /\ NewPremium(chain.rows[i], chain.columns) > 0
            /\ NewPremium(chain.rows[i], chain.columns) - close_cost
                  >= MinCreditInEffect(call.min_credit)}

LaterExpirations(call) ==
    {k \in 1..Len(call.market.expirations) :
        Val(call.market.expirations[k]) > Val(call.position.expiration)}

\* C23: find_roll_opportunities searches every expiration later than the
\* current one: whenever the fetched chains hold a qualifying (strike, later
\* expiration) pair, the result is not empty, it holds the top N of all such
\* pairs, and it is sorted by improvement score in descending order.
C23_FindsEveryQualifyingRoll ==
    (/\ rollCall.op = "returned"
     /\ ~IsNone(rollCall.market.price) /\ Val(rollCall.market.price) > 0
     /\ ~IsNone(rollCall.position.expiration)
     /\ rollCall.max_candidates >= 1) =>
        LET pairs == LaterExpirations(rollCall) \X QualifyingRows(rollCall)
        IN  /\ Len(rollCall.ret) = Min(rollCall.max_candidates, Cardinality(pairs))
            /\ \A i \in 1..(Len(rollCall.ret) - 1) :
                  ~FracLess(rollCall.ret[i].improvement_score,
                            rollCall.ret[i + 1].improvement_score)

\* The same with a fetch that hands back one table of typed quotes, which is
\* not what get_option_chain returns.
C23_WithTableShapedChains ==
    rollCall.market.chain.shape = "frame" => C23_FindsEveryQualifyingRoll

\* C24: no pipeline stage mutates the table it is given: after
\* enrich_options_dataframe or analyze_cash_secured_puts returns (or raises),
\* the caller's table has the rows, columns and values it had before the call.
C24_InputTableUntouched ==
    /\ analyzerCall.op = "enrich_options_dataframe" =>
          analyzerCall.options_df = Table(analyzerCall.rows)
    /\ Len(cspRuns) >= 1 => cspInput = cspCall.given

\* A returned table is ranked: the score of each row is annual_return x
\* prob_otm / 100 when the probability is known and annual_return otherwise,
\* scores do not increase down the table, and rows with equal scores are in
\* the order they had in the input table.
Ranked(run, columns) ==
    run.kind = "table" =>
        /\ \A i \in 1..Len(run.rows) :
              LET r == run.rows[i]
                  expected == IF "prob_otm" \in columns
                              THEN <<r.annual_return[1] * r.prob_otm,
                                     r.annual_return[2] * 100>>
                              ELSE r.annual_return
              IN  /\ ~FracLess(r.risk_reward_score, expected)
                  /\ ~FracLess(expected, r.risk_reward_score)
        /\ \A i, j \in 1..Len(run.rows) :
              i < j =>
                 /\ ~FracLess(run.rows[i].risk_reward_score, run.rows[j].risk_reward_score)
                 /\ ~FracLess(run.rows[j].risk_reward_score, run.rows[i].risk_reward_score)
                       => run.rows[i].idx < run.rows[j].idx

FracEqual(x, y) == x[1] * y[2] = y[1] * x[2]

\* the capital and return columns of one returned opportunity; base is the
\* strike of a put and the spot of a call, premiums are in cents
PositionAggregate(r, base, min_annual_return) ==
    /\ r.capital_required = base * 100
    /\ FracEqual(r.annual_return, <<r.premium_received * 365, base * r.days_to_expiration>>)
    /\ FracAtLeast(r.annual_return, min_annual_return)

\* C26: every returned opportunity carries capital_required as the dollars of
\* the whole position (strike x 100 for a put, spot x 100 for a call), its
\* annualized return is (premium / strike) x (365 / days) x 100 (premium / spot
\* for a call), and that return is at least min_annual_return.
C26_CapitalIsPositionAggregate ==
    /\ \A k \in 1..Len(cspRuns) :
          cspRuns[k].kind = "table" =>
             \A i \in 1..Len(cspRuns[k].rows) :
                PositionAggregate(cspRuns[k].rows[i], cspRuns[k].rows[i].strike,
                                  cspCall.min_annual_return)
    /\ (strategyCall.op = "returned" /\ strategyCall.fn = "analyze_covered_calls"
            /\ strategyCall.ret.kind = "table") =>
          \A i \in 1..Len(strategyCall.ret.rows) :
             PositionAggregate(strategyCall.ret.rows[i],
                               strategyCall.ret.rows[i].current_stock_price,
                               strategyCall.min_annual_return)

\* the same with capital_required per share, as lines 123 and 82 assign it
C26_PerShareCapital ==
    /\ \A k \in 1..Len(cspRuns) :
          cspRuns[k].kind = "table" =>
             \A i \in 1..Len(cspRuns[k].rows) :
                LET r == cspRuns[k].rows[i]
                IN  /\ r.capital_required = r.strike
                    /\ FracEqual(r.annual_return,
                                 <<r.premium_received * 365, r.strike * r.days_to_expiration>>)
                    /\ FracAtLeast(r.annual_return, cspCall.min_annual_return)
    /\ (strategyCall.op = "returned" /\ strategyCall.fn = "analyze_covered_calls"
            /\ strategyCall.ret.kind = "table") =>
          \A i \in 1..Len(strategyCall.ret.rows) :
             LET r == strategyCall.ret.rows[i]
             IN  /\ r.capital_required = r.current_stock_price
                 /\ FracEqual(r.annual_return,
                              <<r.premium_received * 365,
                                r.current_stock_price * r.days_to_expiration>>)
                 /\ FracAtLeast(r.annual_return, strategyCall.min_annual_return)

\* C27: whenever days_remaining is at or below the force-close threshold (21),
\* _determine_action never returns HOLD or ADJUST_TARGETS: the action is
\* CLOSE_EARLY when P&L% >= 50, when the position is ITM with fewer than 7
\* days, or when the probability-OTM is below the floor, and ROLL otherwise;
\* HOLD and ADJUST_TARGETS are only returned with more than 21 days remaining.
C27_ForceCloseWindow ==
    decision.op = "determine" =>
        LET d == decision
            closes == \/ d.pnl_pct >= 50
                      \/ d.moneyness = "ITM" /\ d.days_remaining < 7
                      \/ d.prob_otm < 45
        IN  /\ d.days_remaining <= 21 =>
                  /\ d.ret.action \notin {"HOLD", "ADJUST_TARGETS"}
                  /\ closes => d.ret.action = "CLOSE_EARLY"
                  /\ ~closes => d.ret.action = "ROLL"
            /\ d.ret.action \in {"HOLD", "ADJUST_TARGETS"} => d.days_remaining > 21

\* At exactly 21 days, a position out of the money with a small profit, a
\* sound probability and a large probability change is rolled, not adjusted.
C27_Witness ==
    /\ decision.op = "determine"
    /\ decision.days_remaining = 21
    /\ decision.moneyness = "OTM"
    /\ decision.pnl_pct = 0
    /\ decision.prob_otm = 80
    /\ Abs(decision.prob_change) > 15
    /\ decision.ret.action = "ROLL" /\ decision.ret.urgency = 3

\* C28: a fetch that fails or returns an empty history is never stored in the
\* factor cache: get_stock_data returns absent and leaves every cache entry
\* as it was, so a failed force_refresh keeps the snapshot cached before (which
\* a non-refresh call returns without fetching), a ticker without an entry is
\* fetched on every call, and the entries of other tickers are never touched.
C28_FailedFetchNotCached ==
    [][analyzerCall'.op = "get_stock_data" =>
         LET t == analyzerCall'.ticker IN
         /\ (analyzerCall'.fetched = 1 /\ IsNone(analyzerCall'.ret)) => cache' = cache
         /\ IsNone(cache[t]) => analyzerCall'.fetched = 1
         /\ (~IsNone(cache[t]) /\ ~analyzerCall'.force_refresh) =>
               analyzerCall'.fetched = 0 /\ analyzerCall'.ret = cache[t]
         /\ IsNone(analyzerCall'.ret) => cache'[t] = cache[t]
         /\ \A u \in Tickers \ {t} : cache'[u] = cache[u]]_vars

\* A forced refresh of a cached ticker has failed: the call returned absent
\* and the snapshot is still in the cache.
C28_Witness ==
    /\ analyzerCall.op = "get_stock_data"
    /\ analyzerCall.force_refresh /\ analyzerCall.fetched = 1
    /\ IsNone(analyzerCall.ret)
    /\ cache[analyzerCall.ticker] = Some(Bullish)

\* what add_option_position records of a position
OpenKeys ==
    {"ticker", "option_type", "strike", "expiration", "contracts", "premium", "open_date",
     "strategy", "notes", "added_date"}

SamePosition(o, q) == \A k \in OpenKeys : o[k] = q[k]

\* C29: after any sequence of add_option_position, close_option_position and
\* stock operations, option positions are never removed or reopened: the
\* option list only grows, the index of a position never changes, a position
\* whose status became 'closed' stays closed, and the open view and the closed
\* view of get_options_dataframe partition the list.
C29_OptionsOnlyGrow ==
    [][/\ Len(portfolio'.options) >= Len(portfolio.options)
       /\ \A i \in 1..Len(portfolio.options) :
             /\ SamePosition(portfolio'.options[i], portfolio.options[i])
             /\ portfolio.options[i].status = "closed" =>
                    portfolio'.options[i].status = "closed"
       /\ Len(GetOptionsDataframe(portfolio', "open"))
             + Len(GetOptionsDataframe(portfolio', "closed"))
             = Len(GetOptionsDataframe(portfolio', "all"))
       /\ GetOptionsDataframe(portfolio', "all") = portfolio'.options]_vars

\* Two positions, the first closed and the second open, after a stock
\* position was added and removed again.
C29_Witness ==
    /\ portfolioCall.op = "remove_stock_position" /\ portfolioCall.index = 0
    /\ Len(portfolio.stocks) = 0
    /\ Len(portfolio.options) = 2
    /\ portfolio.options[1].status = "closed" /\ portfolio.options[1].ticker = "SPY"
    /\ portfolio.options[2].status = "open" /\ portfolio.options[2].ticker = "AAPL"
    /\ Len(GetOptionsDataframe(portfolio, "open")) = 1
    /\ Len(GetOptionsDataframe(portfolio, "closed")) = 1

\* C30: when the spot price cannot be fetched, analyze_option_position
\* returns a recommendation computed with a spot of 0 and marked data_quality
\* 'low'; with that spot every put position is classified ITM and every call
\* position OTM, so a put with fewer than 7 days remaining receives
\* CLOSE_EARLY with urgency 5.
C30_MissingSpotIsZero ==
    (recommendation.op = "analyze" /\ IsNone(recommendation.spot)) =>
        LET r == recommendation IN
        /\ r.current_price = 0
        /\ r.data_quality = "low"
        /\ r.position.option_type = "put" => r.moneyness = "ITM"
        /\ r.position.option_type = "call" => r.moneyness = "OTM"
        /\ (r.position.option_type = "put" /\ r.days_remaining < 7) =>
               r.action = "CLOSE_EARLY" /\ r.urgency = 5

\* A put five days from expiration is analysed without a spot price.
C30_Witness ==
    /\ recommendation.op = "analyze"
    /\ IsNone(recommendation.spot)
    /\ recommendation.position.option_type = "put"
    /\ recommendation.position.strike = 90
    /\ recommendation.days_remaining = 5
    /\ recommendation.moneyness = "ITM"
    /\ recommendation.action = "CLOSE_EARLY" /\ recommendation.urgency = 5
    /\ recommendation.data_quality = "low"

====
